---- MODULE Spec2Model ----
(***************************************************************************)
(* Vobook: the e-book to narrated-video pipeline.                          *)
(*                                                                         *)
(* Spec     the stage orchestrator of main.py: AudiobookVideoGenerator,    *)
(*          its checkpoint files and the cache index, one process at a     *)
(*          time, with process death and stage exceptions.                 *)
(* SpecFan  the per-segment fan-out stages (DeepSeekProcessor and          *)
(*          AzureTTS) with their two-tier file caches, at the granularity  *)
(*          of single file operations.                                     *)
(* SpecOrder  the fan-in of the two stages on lists with repeated ids.     *)
(* SpecClean  CacheManager.clean_book_cache on the files of the scopes.    *)
(* SpecSplit  ContentSplitter.split_paragraph on bounded paragraphs.       *)
(* SpecToc  TocParser.parse_toc and flatten_toc on bounded containers, and *)
(*          the selection of a chapter from the printed list.              *)
(* SpecPool  the worker pool and the semaphore of the fan-out stages.      *)
(* SpecBook  parsing, splitting, rendering and recording of whole books.   *)
(* SpecIndex  the orchestrator on a directory whose cache index already    *)
(*          has an entry.                                                  *)
(***************************************************************************)
EXTENDS Integers, Sequences, FiniteSets, TLC

VARIABLES
    \* ---- orchestrator (main.py) ----
    cacheIndex,     \* CACHE_INDEX_FILE: epub path -> book id, or NoBook
    progressFile,   \* TEMP_DIR/<book_id>_progress.json, per book id
    dataFile,       \* TEMP_DIR/<book_id>_<stage>_data.json, per book id and stage
    nextId,         \* the next value uuid4 yields (fresh on every call)
    pc,             \* position of the live process inside the generator
    gen,            \* the fields of the live AudiobookVideoGenerator
    executed,       \* history: stages run by the current generate() call
    result,         \* history: how the last generate() call ended
    ngen,           \* history: generate() calls made so far, by all processes
    completed,      \* history: per book id, the last stage whose save finished
    docCompleted,   \* history: per path, the last stage whose save finished
    \* ---- fan-out stages (deepseek_processor.py, azure_tts.py) ----
    kind,           \* which fan-out stage this behaviour follows
    phase,          \* "idle", "running" (pool at work) or "done" (fanned in)
    run,            \* the processor object of the stage run and its input
    nruns,          \* stage runs started so far
    task,           \* per input position, the pool task working on it
    output,         \* the list the stage run returned
    deepseek_global,    \* CACHE_DIR/deepseek_cache/<md5>.json, per text
    deepseek_book,      \* TEMP_DIR/<book_id>_deepseek_cache/<md5>.json
    tts_global_audio,   \* CACHE_DIR/tts_cache/<md5>.mp3, per text
    tts_global_meta,    \* CACHE_DIR/tts_cache/<md5>.json, per text
    tts_book_audio,     \* TEMP_DIR/<book_id>_audio/<md5>.mp3
    tts_book_meta,      \* TEMP_DIR/<book_id>_audio/<md5>.json
    tts_book_idmeta,    \* TEMP_DIR/<book_id>_audio/<paragraph_id>.json (duration, 0 = absent)
    okCalls,        \* history: per text, successful service calls made with the cache on (2 = several)
    cleaned,        \* history: the book id CacheManager.clean_book_cache last cleaned (0 = none)
    \* ---- segmenter (content_splitter.py) ----
    paragraph,      \* the paragraph handed to ContentSplitter.split_paragraph
    max_chars,      \* ContentSplitter.max_chars
    segments,       \* the list split_paragraph returned, or NotSplit
    \* ---- navigation (toc_parser.py) ----
    epub,           \* the container TocParser works on: NCX, nav document, spine
    toc_items,      \* what parse_toc did: the tree it returned, or that it raised
    toc_map,        \* TocParser.toc_map
    flat_toc,       \* the list flatten_toc returned, or NotFlat
    choice,         \* the line of the printed list the user chose (0: none yet)
    picked,         \* what parse_chapters returned for the choice, or NotPicked
    \* ---- worker limit of a fan-out stage ----
    pool_stage,     \* the stage that fans out: "rewrite", "speech", "record" ("none": no stage)
    work,           \* per segment of the chapter: "new", "queued", "running", "done"
    threads,        \* worker threads the ThreadPoolExecutor has started
    sem_value,      \* the counter of the asyncio.Semaphore of record_paragraphs
    \* ---- extraction and segmentation of a book ----
    soups,          \* per content file of the book, the elements of its markup
    book_max,       \* ContentSplitter.max_chars of the run
    chapters,       \* what EpubParser.parse_chapters returned, or NotParsedBook
    split_chapters, \* what split_book_content returned for chapters, or NotParsedBook
    resplit,        \* what split_book_content returned for split_chapters, or NotParsedBook
    html_files,     \* TEMP_DIR/<book_id>_html/<paragraph_id>.html: per path, the page it holds
    rendered,       \* what render_book returned for split_chapters, or NotParsedBook
    video_files,    \* TEMP_DIR/<book_id>_video/<paragraph_id>.mp4: per path, the page it shows
    recorded        \* what record_book returned for rendered, or NotParsedBook

orchVars == <<cacheIndex, progressFile, dataFile, nextId, pc, gen, executed,
              result, ngen, completed, docCompleted>>

fanVars == <<kind, phase, run, nruns, task, output, deepseek_global, deepseek_book,
             tts_global_audio, tts_global_meta, tts_book_audio, tts_book_meta,
             tts_book_idmeta, okCalls, cleaned>>

splitVars == <<paragraph, max_chars, segments>>

tocVars == <<epub, toc_items, toc_map, flat_toc, choice, picked>>

poolVars == <<pool_stage, work, threads, sem_value>>

bookVars == <<soups, book_max, chapters, split_chapters, resplit,
              html_files, rendered, video_files, recorded>>

vars == <<orchVars, fanVars, splitVars, tocVars, poolVars, bookVars>>

None == "None"

----------------------------------------------------------------------------
\* Bounds of the orchestrator model.
MaxRuns == 2        \* generator objects constructed (processes started)
MaxGenerate == 2    \* generate() calls made, over all generator objects

BookIds == 1..MaxRuns

\* Input documents: <<directory, file name>>.
Paths == {<<"in1", "a.epub">>, <<"in2", "a.epub">>}

basename(p) == p[2]

----------------------------------------------------------------------------
\* The stage names, spelled out so that Python's string comparison can be
\* computed on them.
Chars ==
    [parse_book      |-> <<"p","a","r","s","e","_","b","o","o","k">>,
     split_content   |-> <<"s","p","l","i","t","_","c","o","n","t","e","n","t">>,
     process_text    |-> <<"p","r","o","c","e","s","s","_","t","e","x","t">>,
     generate_speech |-> <<"g","e","n","e","r","a","t","e","_","s","p","e","e","c","h">>,
     render_html     |-> <<"r","e","n","d","e","r","_","h","t","m","l">>,
     record_videos   |-> <<"r","e","c","o","r","d","_","v","i","d","e","o","s">>,
     process_videos  |-> <<"p","r","o","c","e","s","s","_","v","i","d","e","o","s">>]

\* Code points of the characters that occur in stage names.
Ord ==
    [c \in {"_","a","b","c","d","e","g","h","i","k","l","m","n","o","p","r",
            "s","t","v","x"} |->
        CASE c = "_" -> 95  [] c = "a" -> 97  [] c = "b" -> 98  [] c = "c" -> 99
          [] c = "d" -> 100 [] c = "e" -> 101 [] c = "g" -> 103 [] c = "h" -> 104
          [] c = "i" -> 105 [] c = "k" -> 107 [] c = "l" -> 108 [] c = "m" -> 109
          [] c = "n" -> 110 [] c = "o" -> 111 [] c = "p" -> 112 [] c = "r" -> 114
          [] c = "s" -> 115 [] c = "t" -> 116 [] c = "v" -> 118 [] c = "x" -> 120]

\* Python's s <= t on strings: lexicographic by code point.
RECURSIVE SeqLE(_, _)
SeqLE(s, t) ==
    IF s = <<>> THEN TRUE
    ELSE IF t = <<>> THEN FALSE
    ELSE IF Ord[Head(s)] < Ord[Head(t)] THEN TRUE
    ELSE IF Ord[Head(s)] > Ord[Head(t)] THEN FALSE
    ELSE SeqLE(Tail(s), Tail(t))

StrLE(a, b) == SeqLE(Chars[a], Chars[b])

\* The order in which generate() runs the stages.
StageOrder == <<"parse_book", "split_content", "process_text", "generate_speech",
                "render_html", "record_videos", "process_videos">>

Stages == {StageOrder[i] : i \in 1..Len(StageOrder)}

\* The stages that save a checkpoint (process_videos does not).
SavedStages == Stages \ {"process_videos"}

StageIdx(s) == CHOOSE i \in 1..Len(StageOrder) : StageOrder[i] = s

----------------------------------------------------------------------------
\* Files.  A file is absent, partial (opened for writing, content not yet
\* flushed) or complete with its content.
Absent == [state |-> "absent", content |-> <<>>]
Partial == [state |-> "partial", content |-> <<>>]
File(c) == [state |-> "complete", content |-> c]

\* The progress record holds a stage name.
NoProgress == [state |-> "absent", content |-> None]
PartialProgress == [state |-> "partial", content |-> None]

NoGen == [epub_path |-> <<"", "">>, book_id |-> 0, use_cache |-> FALSE,
          clean_cache |-> FALSE, last_stage |-> None, chapters |-> <<>>,
          prior |-> None]

PcNone == [at |-> "none", stage |-> None]
PcIdle == [at |-> "idle", stage |-> None]
PcAt(a, s) == [at |-> a, stage |-> s]

\* The cache switch of config.py, as this deployment sets it.
CACHE_ENABLED == TRUE

----------------------------------------------------------------------------
\* CacheManager.get_book_cache_info: exact path, then file name match.
NoBook == 0

get_book_cache_info(epub_path) ==
    IF ~CACHE_ENABLED THEN NoBook
    ELSE IF cacheIndex[epub_path] # NoBook THEN cacheIndex[epub_path]
    ELSE IF \E p \in Paths : cacheIndex[p] # NoBook /\ basename(p) = basename(epub_path)
         THEN cacheIndex[CHOOSE p \in Paths :
                            cacheIndex[p] # NoBook /\ basename(p) = basename(epub_path)]
    ELSE NoBook

\* AudiobookVideoGenerator._initialize_book_id: the book id the constructor
\* ends with; fresh stands for EpubParser's uuid4.
initialize_book_id(epub_path, use_cache, clean_cache, fresh) ==
    IF clean_cache THEN fresh
    ELSE IF use_cache /\ get_book_cache_info(epub_path) # NoBook
         THEN get_book_cache_info(epub_path)
    ELSE fresh

\* AudiobookVideoGenerator.__init__: a process starts and constructs the
\* generator for one document.
NewGenerator(epub_path, use_cache, clean_cache) ==
    /\ pc.at = "none"
    /\ nextId <= MaxRuns
    /\ LET id == initialize_book_id(epub_path, use_cache, clean_cache, nextId)
       IN /\ gen' = [epub_path |-> epub_path, book_id |-> id,
                     use_cache |-> use_cache, clean_cache |-> clean_cache,
                     last_stage |-> None, chapters |-> <<>>,
                     prior |-> docCompleted[epub_path]]
          /\ nextId' = IF id = nextId THEN nextId + 1 ELSE nextId
    /\ pc' = PcIdle
    /\ executed' = <<>>
    /\ result' = "none"
    /\ UNCHANGED <<ngen, cacheIndex, progressFile, dataFile, completed, docCompleted>>
    /\ UNCHANGED fanVars
    /\ UNCHANGED splitVars
    /\ UNCHANGED tocVars
    /\ UNCHANGED poolVars
    /\ UNCHANGED bookVars

\* _load_progress without the existence test and the error handling around
\* the data file (mutation of load_progress).
load_progress_unchecked(book_id, use_cache) ==
    IF ~use_cache THEN <<None, <<>>>>
    ELSE IF progressFile[book_id].state # "complete" THEN <<None, <<>>>>
    ELSE <<progressFile[book_id].content,
           dataFile[book_id][progressFile[book_id].content].content>>

\* AudiobookVideoGenerator._load_progress: <<stage, data>> or <<None, <<>>>>.
load_progress(book_id, use_cache) ==
    IF ~use_cache THEN <<None, <<>>>>
    ELSE IF progressFile[book_id].state = "absent" THEN <<None, <<>>>>
    ELSE IF progressFile[book_id].state = "partial" THEN <<None, <<>>>>
    ELSE LET stage == progressFile[book_id].content
         IN IF dataFile[book_id][stage].state = "complete"
            THEN <<stage, dataFile[book_id][stage].content>>
            ELSE <<None, <<>>>>

\* AudiobookVideoGenerator._clean_book_cache: the files left for book_id.
clean_progress(book_id) == [progressFile EXCEPT ![book_id] = NoProgress]

clean_data(book_id) ==
    [dataFile EXCEPT ![book_id] = [s \in SavedStages |-> Absent]]

\* generate(), up to the first stage: discard or load the checkpoint.
generate ==
    /\ pc.at = "idle"
    /\ ngen < MaxGenerate
    /\ ngen' = ngen + 1
    /\ executed' = <<>>
    /\ result' = "running"
    /\ pc' = PcAt("stage", "parse_book")
    /\ IF gen.clean_cache
       THEN /\ progressFile' = clean_progress(gen.book_id)
            /\ dataFile' = clean_data(gen.book_id)
            /\ completed' = [completed EXCEPT ![gen.book_id] = None]
            /\ gen' = [gen EXCEPT !.last_stage = None, !.chapters = <<>>]
       ELSE /\ UNCHANGED <<progressFile, dataFile, completed>>
            /\ LET got == load_progress(gen.book_id, gen.use_cache)
               IN gen' = [gen EXCEPT !.last_stage = got[1], !.chapters = got[2]]
    /\ UNCHANGED <<cacheIndex, nextId, docCompleted>>
    /\ UNCHANGED fanVars
    /\ UNCHANGED splitVars
    /\ UNCHANGED tocVars
    /\ UNCHANGED poolVars
    /\ UNCHANGED bookVars

\* The condition under which generate() runs stage s, given the loaded
\* last_stage (main.py: last_stage is None or last_stage <= "<previous>").
ShouldRun(s, last_stage) ==
    IF s = "process_videos" THEN TRUE
    ELSE IF last_stage = None THEN TRUE
    ELSE IF s = "parse_book" THEN FALSE
    ELSE StrLE(last_stage, StageOrder[StageIdx(s) - 1])

NextStage(s) == StageOrder[StageIdx(s) + 1]

\* One stage of generate(): the if around it and, when taken, the stage's
\* work on the chapters.  The chapters are modelled by their lineage: the
\* sequence of stages that have been applied to them.
StageStep(s) ==
    /\ pc = PcAt("stage", s)
    /\ IF ShouldRun(s, gen.last_stage)
       THEN /\ executed' = Append(executed, s)
            /\ gen' = [gen EXCEPT !.chapters = Append(@, s)]
            /\ IF s = "process_videos"
               THEN /\ pc' = PcIdle
                    /\ result' = "returned"
               ELSE /\ pc' = IF gen.use_cache THEN PcAt("save_open_progress", s)
                             ELSE PcAt("stage", NextStage(s))
                    /\ UNCHANGED result
       ELSE /\ pc' = PcAt("stage", NextStage(s))
            /\ UNCHANGED <<executed, gen, result>>
    /\ UNCHANGED <<cacheIndex, progressFile, dataFile, nextId, ngen, completed,
                   docCompleted>>
    /\ UNCHANGED fanVars
    /\ UNCHANGED splitVars
    /\ UNCHANGED tocVars
    /\ UNCHANGED poolVars
    /\ UNCHANGED bookVars

parse_book == StageStep("parse_book")
split_content == StageStep("split_content")
process_text == StageStep("process_text")
generate_speech == StageStep("generate_speech")
render_html == StageStep("render_html")
record_videos == StageStep("record_videos")
process_videos == StageStep("process_videos")

\* _save_progress, one file operation at a time: open(progress_path, 'w'),
\* json.dump(progress), open(data_path, 'w'), json.dump(data).
save_open_progress ==
    /\ pc.at = "save_open_progress"
    /\ progressFile' = [progressFile EXCEPT ![gen.book_id] = PartialProgress]
    /\ pc' = PcAt("save_dump_progress", pc.stage)
    /\ UNCHANGED <<cacheIndex, dataFile, nextId, gen, executed, result, ngen,
                   completed, docCompleted>>
    /\ UNCHANGED fanVars
    /\ UNCHANGED splitVars
    /\ UNCHANGED tocVars
    /\ UNCHANGED poolVars
    /\ UNCHANGED bookVars

save_dump_progress ==
    /\ pc.at = "save_dump_progress"
    /\ progressFile' = [progressFile EXCEPT ![gen.book_id] = File(pc.stage)]
    /\ pc' = PcAt("save_open_data", pc.stage)
    /\ UNCHANGED <<cacheIndex, dataFile, nextId, gen, executed, result, ngen,
                   completed, docCompleted>>
    /\ UNCHANGED fanVars
    /\ UNCHANGED splitVars
    /\ UNCHANGED tocVars
    /\ UNCHANGED poolVars
    /\ UNCHANGED bookVars

save_open_data ==
    /\ pc.at = "save_open_data"
    /\ dataFile' = [dataFile EXCEPT ![gen.book_id][pc.stage] = Partial]
    /\ pc' = PcAt("save_dump_data", pc.stage)
    /\ UNCHANGED <<cacheIndex, progressFile, nextId, gen, executed, result, ngen,
                   completed, docCompleted>>
    /\ UNCHANGED fanVars
    /\ UNCHANGED splitVars
    /\ UNCHANGED tocVars
    /\ UNCHANGED poolVars
    /\ UNCHANGED bookVars

save_dump_data ==
    /\ pc.at = "save_dump_data"
    /\ dataFile' = [dataFile EXCEPT ![gen.book_id][pc.stage] = File(gen.chapters)]
    /\ pc' = PcAt("stage", NextStage(pc.stage))
    /\ completed' = [completed EXCEPT ![gen.book_id] = pc.stage]
    /\ docCompleted' = [docCompleted EXCEPT ![gen.epub_path] = pc.stage]
    /\ UNCHANGED <<cacheIndex, progressFile, nextId, gen, executed, result, ngen>>
    /\ UNCHANGED fanVars
    /\ UNCHANGED splitVars
    /\ UNCHANGED tocVars
    /\ UNCHANGED poolVars
    /\ UNCHANGED bookVars

Running == pc.at \notin {"none", "idle"}

\* A stage, or a file operation of _save_progress, raises: generate() ends
\* with the exception and the generator object stays with its caller.
StageRaises ==
    /\ Running
    /\ pc' = PcIdle
    /\ result' = "raised"
    /\ UNCHANGED <<cacheIndex, progressFile, dataFile, nextId, gen, executed,
                   ngen, completed, docCompleted>>
    /\ UNCHANGED fanVars
    /\ UNCHANGED splitVars
    /\ UNCHANGED tocVars
    /\ UNCHANGED poolVars
    /\ UNCHANGED bookVars

\* The process dies (or ends): the generator object is gone, the files stay.
ProcessDies ==
    /\ pc.at # "none"
    /\ pc' = PcNone
    /\ gen' = NoGen
    /\ executed' = <<>>
    /\ result' = "none"
    /\ UNCHANGED <<ngen, cacheIndex, progressFile, dataFile, nextId, completed,
                   docCompleted>>
    /\ UNCHANGED fanVars
    /\ UNCHANGED splitVars
    /\ UNCHANGED tocVars
    /\ UNCHANGED poolVars
    /\ UNCHANGED bookVars

----------------------------------------------------------------------------
\* The fan-out stages.  A stage run is one call of
\* DeepSeekProcessor.process_chapters on a one-chapter book or of
\* AzureTTS.process_paragraphs: one pool task per paragraph.  The two stages
\* keep disjoint files, so a behaviour follows one of them (kind).

MaxStageRuns == 2   \* stage runs started in one behaviour
MAX_WORKERS == 2    \* config.MAX_WORKERS (os.cpu_count() or 4) on a two-core host

FanBooks == 1..2

\* Characters of texts and of service replies.
QUOTE == "\""
PHRASE == "<phrase>"    \* one of the two boilerplate prefixes convert_to_oral removes

TextA == <<"a">>
TextB == <<"b">>
Texts == {TextA, TextB}

\* The value a task works with: a rewritten text, or the speech information.
Val(text, audio_path, duration, word_timings) ==
    [text |-> text, audio_path |-> audio_path, duration |-> duration,
     word_timings |-> word_timings]

NoVal == Val(<<>>, <<>>, 0, <<>>)
TextVal(t) == Val(t, <<>>, 0, <<>>)

Para(id, type, content) == [id |-> id, type |-> type, content |-> content]

\* The paragraph lists handed to a stage run.
FanInputs ==
    { <<Para("p1", "text", TextA), Para("p2", "text", TextA)>>,
      <<Para("p1", "text", TextA), Para("p2", "text", TextB)>>,
      <<Para("p1", "image", <<>>), Para("p2", "text", TextB)>> }

\* The settings of a stage run: config.CACHE_ENABLED, the generator's use_cache
\* (--no-cache) and whether the service key is set.  The default, and each
\* setting changed alone.
Config(cache_enabled, use_cache, has_key) ==
    [cache_enabled |-> cache_enabled, use_cache |-> use_cache, has_key |-> has_key]

RunConfigs == { Config(TRUE, TRUE, TRUE), Config(FALSE, TRUE, TRUE),
                Config(TRUE, FALSE, TRUE), Config(TRUE, TRUE, FALSE) }

NoRun == [book |-> 0, cache_enabled |-> FALSE, use_cache |-> FALSE, has_key |-> FALSE,
          paragraphs |-> <<>>]

\* A pool task: where it is, the value in flight, and how it got its result
\* (via: "cache", "api", "fallback", "placeholder", "exception"; tier: the
\* cache tier a hit came from; seen: the cache file its lookup read;
\* local_had: whether the book tier held the key when the lookup chose the
\* global tier).
NewTask == [pc |-> "queued", val |-> NoVal, via |-> "none", tier |-> "none",
            seen |-> Absent, local_had |-> FALSE]

Active == {i \in DOMAIN task : task[i].pc \notin {"queued", "done"}}

\* AudiobookVideoGenerator.process_text / generate_speech: construct the
\* processor for the book id and hand the paragraphs to the pool.
StartRun(book, cfg, paragraphs) ==
    /\ phase \in {"idle", "done"}
    /\ nruns < MaxStageRuns
    /\ book <= nruns + 1
    /\ nruns' = nruns + 1
    /\ run' = [book |-> book, cache_enabled |-> cfg.cache_enabled,
               use_cache |-> cfg.use_cache, has_key |-> cfg.has_key,
               paragraphs |-> paragraphs]
    /\ task' = [i \in 1..Len(paragraphs) |-> NewTask]
    /\ output' = <<>>
    /\ phase' = "running"
    /\ UNCHANGED <<cleaned, kind, deepseek_global, deepseek_book, tts_global_audio,
                   tts_global_meta, tts_book_audio, tts_book_meta, tts_book_idmeta,
                   okCalls>>
    /\ UNCHANGED orchVars
    /\ UNCHANGED splitVars
    /\ UNCHANGED tocVars
    /\ UNCHANGED poolVars
    /\ UNCHANGED bookVars

Finish(i, val, via) == [task EXCEPT ![i].pc = "done", ![i].val = val, ![i].via = via]

Goto(i, where) == [task EXCEPT ![i].pc = where]

text_of(i) == run.paragraphs[i].content

dsFiles == <<deepseek_global, deepseek_book>>
ttsFiles == <<tts_global_audio, tts_global_meta, tts_book_audio, tts_book_meta,
              tts_book_idmeta>>

----------------------------------------------------------------------------
\* DeepSeekProcessor.

\* _get_cache_path: the global file if it exists, else the book file.
get_cache_path(book, text) ==
    IF deepseek_global[text].state # "absent" THEN <<"global", deepseek_global[text]>>
    ELSE <<"book", deepseek_book[book][text]>>

\* _is_cached.
is_cached(cache_enabled, book, text) ==
    IF ~cache_enabled THEN FALSE
    ELSE get_cache_path(book, text)[2].state # "absent"

\* str.strip('"\''), str.replace(<phrase>, ""), str.strip() on a reply.
RECURSIVE lstrip(_, _)
lstrip(s, cs) ==
    IF s # <<>> /\ Head(s) \in cs THEN lstrip(Tail(s), cs) ELSE s

RECURSIVE rstrip(_, _)
rstrip(s, cs) ==
    IF s # <<>> /\ s[Len(s)] \in cs THEN rstrip(SubSeq(s, 1, Len(s) - 1), cs) ELSE s

strip(s, cs) == rstrip(lstrip(s, cs), cs)

remove_phrase(s) == SelectSeq(s, LAMBDA c : c # PHRASE)

clean_reply(content) == strip(remove_phrase(strip(content, {QUOTE, "'"})), {" "})

\* What the rewriting service may answer with status 200.
Replies == { <<QUOTE, "x", QUOTE>>, <<PHRASE, " ">> }

\* process_paragraph on an image: returned as it is.
ds_image(i) ==
    /\ kind = "rewrite" /\ phase = "running"
    /\ task[i].pc = "queued" /\ Cardinality(Active) < MAX_WORKERS
    /\ run.paragraphs[i].type = "image"
    /\ task' = Finish(i, NoVal, "image")
    /\ UNCHANGED <<cleaned, kind, phase, run, nruns, output, dsFiles, ttsFiles, okCalls>>
    /\ UNCHANGED orchVars
    /\ UNCHANGED splitVars
    /\ UNCHANGED tocVars
    /\ UNCHANGED poolVars
    /\ UNCHANGED bookVars

\* convert_to_oral, the _is_cached test.
ds_is_cached(i) ==
    /\ kind = "rewrite" /\ phase = "running"
    /\ task[i].pc = "queued" /\ Cardinality(Active) < MAX_WORKERS
    /\ run.paragraphs[i].type = "text"
    /\ task' = Goto(i, IF is_cached(run.cache_enabled, run.book, text_of(i))
                       THEN "get_from_cache" ELSE "call_api")
    /\ UNCHANGED <<cleaned, kind, phase, run, nruns, output, dsFiles, ttsFiles, okCalls>>
    /\ UNCHANGED orchVars
    /\ UNCHANGED splitVars
    /\ UNCHANGED tocVars
    /\ UNCHANGED poolVars
    /\ UNCHANGED bookVars

\* _get_from_cache and the test of its result: the value convert_to_oral
\* returns from the cache, or NoHit.  An unreadable file is a miss.
NoHit == [hit |-> FALSE, text |-> <<>>]

get_from_cache(cache_enabled, book, text) ==
    IF ~cache_enabled THEN NoHit
    ELSE LET f == get_cache_path(book, text)[2]
         IN IF f.state = "complete" /\ f.content.text # <<>>
            THEN [hit |-> TRUE, text |-> f.content.text]
            ELSE NoHit

ds_get_from_cache(i) ==
    /\ kind = "rewrite" /\ phase = "running"
    /\ task[i].pc = "get_from_cache"
    /\ LET got == get_from_cache(run.cache_enabled, run.book, text_of(i))
           path == get_cache_path(run.book, text_of(i))
       IN task' = [task EXCEPT
                     ![i].seen = path[2],
                     ![i].tier = path[1],
                     ![i].local_had = deepseek_book[run.book][text_of(i)].state # "absent",
                     ![i].pc = IF got.hit THEN "done" ELSE "call_api",
                     ![i].val = IF got.hit THEN TextVal(got.text) ELSE @,
                     ![i].via = IF got.hit THEN "cache" ELSE @]
    /\ UNCHANGED <<cleaned, kind, phase, run, nruns, output, dsFiles, ttsFiles, okCalls>>
    /\ UNCHANGED orchVars
    /\ UNCHANGED splitVars
    /\ UNCHANGED tocVars
    /\ UNCHANGED poolVars
    /\ UNCHANGED bookVars

\* convert_to_oral without an API key: the text is returned as it is.
ds_no_key(i) ==
    /\ kind = "rewrite" /\ phase = "running"
    /\ task[i].pc = "call_api"
    /\ ~run.has_key
    /\ task' = Finish(i, TextVal(text_of(i)), "fallback")
    /\ UNCHANGED <<cleaned, kind, phase, run, nruns, output, dsFiles, ttsFiles, okCalls>>
    /\ UNCHANGED orchVars
    /\ UNCHANGED splitVars
    /\ UNCHANGED tocVars
    /\ UNCHANGED poolVars
    /\ UNCHANGED bookVars

\* requests.post answers 200 with content: the reply is cleaned and, with the
\* cache on, saved.
ds_call_ok(i, content) ==
    /\ kind = "rewrite" /\ phase = "running"
    /\ task[i].pc = "call_api"
    /\ run.has_key
    /\ task' = [task EXCEPT ![i].val = TextVal(clean_reply(content)),
                            ![i].via = "api",
                            ![i].pc = IF run.cache_enabled THEN "save_open_global"
                                      ELSE "done"]
    /\ okCalls' = IF run.cache_enabled
                  THEN [okCalls EXCEPT ![text_of(i)] = IF @ = 0 THEN 1 ELSE 2] ELSE okCalls
    /\ UNCHANGED <<cleaned, kind, phase, run, nruns, output, dsFiles, ttsFiles>>
    /\ UNCHANGED orchVars
    /\ UNCHANGED splitVars
    /\ UNCHANGED tocVars
    /\ UNCHANGED poolVars
    /\ UNCHANGED bookVars

\* convert_to_oral saving the text it passes through on a failure (mutation
\* of ds_call_fails).
ds_call_fails_saving(i) ==
    /\ kind = "rewrite" /\ phase = "running"
    /\ task[i].pc = "call_api"
    /\ run.has_key
    /\ task' = [task EXCEPT ![i].val = TextVal(text_of(i)),
                            ![i].via = "fallback",
                            ![i].pc = IF run.cache_enabled THEN "save_open_global"
                                      ELSE "done"]
    /\ UNCHANGED <<cleaned, kind, phase, run, nruns, output, dsFiles, ttsFiles, okCalls>>
    /\ UNCHANGED orchVars
    /\ UNCHANGED splitVars
    /\ UNCHANGED tocVars
    /\ UNCHANGED poolVars
    /\ UNCHANGED bookVars

\* requests.post answers another status, or raises: the text is returned as
\* it is and nothing is saved.
ds_call_fails(i) ==
    /\ kind = "rewrite" /\ phase = "running"
    /\ task[i].pc = "call_api"
    /\ run.has_key
    /\ task' = Finish(i, TextVal(text_of(i)), "fallback")
    /\ UNCHANGED <<cleaned, kind, phase, run, nruns, output, dsFiles, ttsFiles, okCalls>>
    /\ UNCHANGED orchVars
    /\ UNCHANGED splitVars
    /\ UNCHANGED tocVars
    /\ UNCHANGED poolVars
    /\ UNCHANGED bookVars

\* _save_to_cache, one file operation at a time.
ds_save_open_global(i) ==
    /\ kind = "rewrite" /\ phase = "running"
    /\ task[i].pc = "save_open_global"
    /\ deepseek_global' = [deepseek_global EXCEPT ![text_of(i)] = Partial]
    /\ task' = Goto(i, "save_dump_global")
    /\ UNCHANGED <<cleaned, kind, phase, run, nruns, output, deepseek_book, ttsFiles, okCalls>>
    /\ UNCHANGED orchVars
    /\ UNCHANGED splitVars
    /\ UNCHANGED tocVars
    /\ UNCHANGED poolVars
    /\ UNCHANGED bookVars

ds_save_dump_global(i) ==
    /\ kind = "rewrite" /\ phase = "running"
    /\ task[i].pc = "save_dump_global"
    /\ deepseek_global' = [deepseek_global EXCEPT ![text_of(i)] = File(task[i].val)]
    /\ task' = Goto(i, "save_open_book")
    /\ UNCHANGED <<cleaned, kind, phase, run, nruns, output, deepseek_book, ttsFiles, okCalls>>
    /\ UNCHANGED orchVars
    /\ UNCHANGED splitVars
    /\ UNCHANGED tocVars
    /\ UNCHANGED poolVars
    /\ UNCHANGED bookVars

ds_save_open_book(i) ==
    /\ kind = "rewrite" /\ phase = "running"
    /\ task[i].pc = "save_open_book"
    /\ deepseek_book' = [deepseek_book EXCEPT ![run.book][text_of(i)] = Partial]
    /\ task' = Goto(i, "save_dump_book")
    /\ UNCHANGED <<cleaned, kind, phase, run, nruns, output, deepseek_global, ttsFiles, okCalls>>
    /\ UNCHANGED orchVars
    /\ UNCHANGED splitVars
    /\ UNCHANGED tocVars
    /\ UNCHANGED poolVars
    /\ UNCHANGED bookVars

ds_save_dump_book(i) ==
    /\ kind = "rewrite" /\ phase = "running"
    /\ task[i].pc = "save_dump_book"
    /\ deepseek_book' = [deepseek_book EXCEPT ![run.book][text_of(i)] = File(task[i].val)]
    /\ task' = Goto(i, "done")
    /\ UNCHANGED <<cleaned, kind, phase, run, nruns, output, deepseek_global, ttsFiles, okCalls>>
    /\ UNCHANGED orchVars
    /\ UNCHANGED splitVars
    /\ UNCHANGED tocVars
    /\ UNCHANGED poolVars
    /\ UNCHANGED bookVars

\* The paragraph process_paragraph returns; src is the input position the
\* result was computed for (history).
Processed(i, t) ==
    IF run.paragraphs[i].type = "image"
    THEN [id |-> run.paragraphs[i].id, type |-> "image", content |-> <<>>,
          has_original |-> FALSE, original_content |-> <<>>,
          has_audio |-> FALSE, audio |-> NoVal, src |-> i]
    ELSE [id |-> run.paragraphs[i].id, type |-> "text", content |-> t.val.text,
          has_original |-> TRUE, original_content |-> text_of(i),
          has_audio |-> FALSE, audio |-> NoVal, src |-> i]

\* process_chapters: list(executor.map(process_paragraph, paragraphs)).
process_chapters ==
    /\ kind = "rewrite" /\ phase = "running"
    /\ \A i \in DOMAIN task : task[i].pc = "done"
    /\ output' = [i \in DOMAIN task |-> Processed(i, task[i])]
    /\ phase' = "done"
    /\ UNCHANGED <<cleaned, kind, run, nruns, task, dsFiles, ttsFiles, okCalls>>
    /\ UNCHANGED orchVars
    /\ UNCHANGED splitVars
    /\ UNCHANGED tocVars
    /\ UNCHANGED poolVars
    /\ UNCHANGED bookVars

----------------------------------------------------------------------------
\* AzureTTS.  Durations are in tenths of a second.

AudioOf(text) == TextVal(text)
Meta(duration, word_timings) == Val(<<>>, <<>>, duration, word_timings)

\* _get_audio_path with and without a content hash.
HashAudioPath(book, text) == <<book, "hash", text>>
IdAudioPath(book, id) == <<book, "id", <<id>>>>

\* What the speech service may report as word boundaries when it succeeds.
SpeechWords == <<[text |-> "w", audio_offset |-> 0, duration |-> 3]>>
SpeechReplies == { SpeechWords }

\* The duration generate_speech derives from a successful synthesis.
speech_duration(text, word_timings) ==
    IF word_timings # <<>>
    THEN word_timings[Len(word_timings)].audio_offset
            + word_timings[Len(word_timings)].duration
    ELSE Len(text)

\* _is_in_global_cache.
is_in_global_cache(cache_enabled, text) ==
    IF ~cache_enabled THEN FALSE
    ELSE tts_global_audio[text].state # "absent" /\ tts_global_meta[text].state # "absent"

\* _is_generated(paragraph_id, content) for non-empty content.
is_generated(cache_enabled, book, text) ==
    IF ~cache_enabled THEN FALSE
    ELSE IF is_in_global_cache(cache_enabled, text) THEN TRUE
    ELSE tts_book_audio[book][text].state # "absent"
            /\ tts_book_meta[book][text].state # "absent"

is_blank(text) == strip(text, {" "}) = <<>>

\* _generate_empty_audio(paragraph_id, duration): the value returned; the
\* metadata file named after the paragraph id is written.
empty_audio(book, id, duration) == Val(<<>>, IdAudioPath(book, id), duration, <<>>)

Placeholder(i, duration) ==
    /\ task' = Finish(i, empty_audio(run.book, run.paragraphs[i].id, duration),
                      "placeholder")
    /\ tts_book_idmeta' = [tts_book_idmeta EXCEPT
                             ![run.book][run.paragraphs[i].id] = duration]

\* generate_speech on an image or on blank text.
tts_empty(i) ==
    /\ kind = "speech" /\ phase = "running"
    /\ task[i].pc = "queued" /\ Cardinality(Active) < MAX_WORKERS
    /\ run.paragraphs[i].type = "image" \/ is_blank(text_of(i))
    /\ Placeholder(i, IF run.paragraphs[i].type = "image" THEN 50 ELSE 10)
    /\ UNCHANGED <<cleaned, kind, phase, run, nruns, output, dsFiles, tts_global_audio,
                   tts_global_meta, tts_book_audio, tts_book_meta, okCalls>>
    /\ UNCHANGED orchVars
    /\ UNCHANGED splitVars
    /\ UNCHANGED tocVars
    /\ UNCHANGED poolVars
    /\ UNCHANGED bookVars

\* generate_speech, the test of the global cache.
tts_check_global(i) ==
    /\ kind = "speech" /\ phase = "running"
    /\ task[i].pc = "queued" /\ Cardinality(Active) < MAX_WORKERS
    /\ run.paragraphs[i].type = "text" /\ ~is_blank(text_of(i))
    /\ task' = [task EXCEPT
                  ![i].pc = IF is_in_global_cache(run.cache_enabled, text_of(i))
                            THEN "copy_audio" ELSE "is_generated",
                  ![i].local_had = tts_book_audio[run.book][text_of(i)].state # "absent"
                                   /\ tts_book_meta[run.book][text_of(i)].state # "absent"]
    /\ UNCHANGED <<cleaned, kind, phase, run, nruns, output, dsFiles, ttsFiles, okCalls>>
    /\ UNCHANGED orchVars
    /\ UNCHANGED splitVars
    /\ UNCHANGED tocVars
    /\ UNCHANGED poolVars
    /\ UNCHANGED bookVars

\* _copy_from_global_cache: shutil.copy2 of the audio.
tts_copy_audio(i) ==
    /\ kind = "speech" /\ phase = "running"
    /\ task[i].pc = "copy_audio"
    /\ tts_book_audio' = [tts_book_audio EXCEPT
                            ![run.book][text_of(i)] = tts_global_audio[text_of(i)]]
    /\ task' = Goto(i, "copy_read_meta")
    /\ UNCHANGED <<cleaned, kind, phase, run, nruns, output, dsFiles, tts_global_audio,
                   tts_global_meta, tts_book_meta, tts_book_idmeta, okCalls>>
    /\ UNCHANGED orchVars
    /\ UNCHANGED splitVars
    /\ UNCHANGED tocVars
    /\ UNCHANGED poolVars
    /\ UNCHANGED bookVars

\* _copy_from_global_cache: json.load of the global metadata; a file that is
\* not complete makes it raise, and the exception leaves generate_speech.
tts_copy_read_meta(i) ==
    /\ kind = "speech" /\ phase = "running"
    /\ task[i].pc = "copy_read_meta"
    /\ LET f == tts_global_meta[text_of(i)]
       IN task' = IF f.state = "complete"
                  THEN [task EXCEPT ![i].pc = "copy_open_meta", ![i].seen = f,
                                    ![i].tier = "global",
                                    ![i].val = Val(<<>>, HashAudioPath(run.book, text_of(i)),
                                                   f.content.duration,
                                                   f.content.word_timings)]
                  ELSE [task EXCEPT ![i].pc = "done", ![i].via = "exception",
                                    ![i].seen = f, ![i].tier = "global"]
    /\ UNCHANGED <<cleaned, kind, phase, run, nruns, output, dsFiles, ttsFiles, okCalls>>
    /\ UNCHANGED orchVars
    /\ UNCHANGED splitVars
    /\ UNCHANGED tocVars
    /\ UNCHANGED poolVars
    /\ UNCHANGED bookVars

tts_copy_open_meta(i) ==
    /\ kind = "speech" /\ phase = "running"
    /\ task[i].pc = "copy_open_meta"
    /\ tts_book_meta' = [tts_book_meta EXCEPT ![run.book][text_of(i)] = Partial]
    /\ task' = Goto(i, "copy_dump_meta")
    /\ UNCHANGED <<cleaned, kind, phase, run, nruns, output, dsFiles, tts_global_audio,
                   tts_global_meta, tts_book_audio, tts_book_idmeta, okCalls>>
    /\ UNCHANGED orchVars
    /\ UNCHANGED splitVars
    /\ UNCHANGED tocVars
    /\ UNCHANGED poolVars
    /\ UNCHANGED bookVars

tts_copy_dump_meta(i) ==
    /\ kind = "speech" /\ phase = "running"
    /\ task[i].pc = "copy_dump_meta"
    /\ tts_book_meta' = [tts_book_meta EXCEPT ![run.book][text_of(i)] =
                            File(Meta(task[i].val.duration, task[i].val.word_timings))]
    /\ task' = Finish(i, task[i].val, "cache")
    /\ UNCHANGED <<cleaned, kind, phase, run, nruns, output, dsFiles, tts_global_audio,
                   tts_global_meta, tts_book_audio, tts_book_idmeta, okCalls>>
    /\ UNCHANGED orchVars
    /\ UNCHANGED splitVars
    /\ UNCHANGED tocVars
    /\ UNCHANGED poolVars
    /\ UNCHANGED bookVars

\* generate_speech, the _is_generated test.
tts_is_generated(i) ==
    /\ kind = "speech" /\ phase = "running"
    /\ task[i].pc = "is_generated"
    /\ task' = Goto(i, IF is_generated(run.cache_enabled, run.book, text_of(i))
                       THEN "read_book_meta" ELSE "synth")
    /\ UNCHANGED <<cleaned, kind, phase, run, nruns, output, dsFiles, ttsFiles, okCalls>>
    /\ UNCHANGED orchVars
    /\ UNCHANGED splitVars
    /\ UNCHANGED tocVars
    /\ UNCHANGED poolVars
    /\ UNCHANGED bookVars

\* The book-cache branch of generate_speech: the metadata named after the
\* hash if that file exists, else the one named after the paragraph id; a
\* missing or incomplete file makes open / json.load raise.
read_book_meta(book, id, text) ==
    LET hm == tts_book_meta[book][text]
        audio == IF tts_book_audio[book][text].state # "absent"
                 THEN HashAudioPath(book, text) ELSE IdAudioPath(book, id)
    IN IF hm.state = "complete"
       THEN [ok |-> TRUE, seen |-> hm,
             val |-> Val(<<>>, audio, hm.content.duration, hm.content.word_timings)]
       ELSE IF hm.state = "partial"
       THEN [ok |-> FALSE, seen |-> hm, val |-> NoVal]
       ELSE IF tts_book_idmeta[book][id] # 0
       THEN [ok |-> TRUE, seen |-> File(Meta(tts_book_idmeta[book][id], <<>>)),
             val |-> Val(<<>>, audio, tts_book_idmeta[book][id], <<>>)]
       ELSE [ok |-> FALSE, seen |-> Absent, val |-> NoVal]

tts_read_book_meta(i) ==
    /\ kind = "speech" /\ phase = "running"
    /\ task[i].pc = "read_book_meta"
    /\ LET got == read_book_meta(run.book, run.paragraphs[i].id, text_of(i))
       IN task' = [task EXCEPT ![i].pc = "done", ![i].seen = got.seen,
                               ![i].tier = "book", ![i].val = got.val,
                               ![i].via = IF got.ok THEN "cache" ELSE "exception"]
    /\ UNCHANGED <<cleaned, kind, phase, run, nruns, output, dsFiles, ttsFiles, okCalls>>
    /\ UNCHANGED orchVars
    /\ UNCHANGED splitVars
    /\ UNCHANGED tocVars
    /\ UNCHANGED poolVars
    /\ UNCHANGED bookVars

\* generate_speech without a speech key: a one-second placeholder.
tts_no_key(i) ==
    /\ kind = "speech" /\ phase = "running"
    /\ task[i].pc = "synth"
    /\ ~run.has_key
    /\ Placeholder(i, 10)
    /\ UNCHANGED <<cleaned, kind, phase, run, nruns, output, dsFiles, tts_global_audio,
                   tts_global_meta, tts_book_audio, tts_book_meta, okCalls>>
    /\ UNCHANGED orchVars
    /\ UNCHANGED splitVars
    /\ UNCHANGED tocVars
    /\ UNCHANGED poolVars
    /\ UNCHANGED bookVars

\* speak_ssml_async completes: the audio is in the book directory under the
\* content hash.
tts_synth_ok(i, word_timings) ==
    /\ kind = "speech" /\ phase = "running"
    /\ task[i].pc = "synth"
    /\ run.has_key
    /\ tts_book_audio' = [tts_book_audio EXCEPT
                            ![run.book][text_of(i)] = File(AudioOf(text_of(i)))]
    /\ task' = [task EXCEPT ![i].pc = "meta_open", ![i].via = "api",
                  ![i].val = Val(<<>>, HashAudioPath(run.book, text_of(i)),
                                 speech_duration(text_of(i), word_timings),
                                 word_timings)]
    /\ okCalls' = IF run.cache_enabled
                  THEN [okCalls EXCEPT ![text_of(i)] = IF @ = 0 THEN 1 ELSE 2] ELSE okCalls
    /\ UNCHANGED <<cleaned, kind, phase, run, nruns, output, dsFiles, tts_global_audio,
                   tts_global_meta, tts_book_meta, tts_book_idmeta>>
    /\ UNCHANGED orchVars
    /\ UNCHANGED splitVars
    /\ UNCHANGED tocVars
    /\ UNCHANGED poolVars
    /\ UNCHANGED bookVars

\* speak_ssml_async ends with another reason, or raises: a one-second
\* placeholder.
tts_synth_fails(i) ==
    /\ kind = "speech" /\ phase = "running"
    /\ task[i].pc = "synth"
    /\ run.has_key
    /\ Placeholder(i, 10)
    /\ UNCHANGED <<cleaned, kind, phase, run, nruns, output, dsFiles, tts_global_audio,
                   tts_global_meta, tts_book_audio, tts_book_meta, okCalls>>
    /\ UNCHANGED orchVars
    /\ UNCHANGED splitVars
    /\ UNCHANGED tocVars
    /\ UNCHANGED poolVars
    /\ UNCHANGED bookVars

\* generate_speech writes the metadata into the book directory.
tts_meta_open(i) ==
    /\ kind = "speech" /\ phase = "running"
    /\ task[i].pc = "meta_open"
    /\ tts_book_meta' = [tts_book_meta EXCEPT ![run.book][text_of(i)] = Partial]
    /\ task' = Goto(i, "meta_dump")
    /\ UNCHANGED <<cleaned, kind, phase, run, nruns, output, dsFiles, tts_global_audio,
                   tts_global_meta, tts_book_audio, tts_book_idmeta, okCalls>>
    /\ UNCHANGED orchVars
    /\ UNCHANGED splitVars
    /\ UNCHANGED tocVars
    /\ UNCHANGED poolVars
    /\ UNCHANGED bookVars

tts_meta_dump(i) ==
    /\ kind = "speech" /\ phase = "running"
    /\ task[i].pc = "meta_dump"
    /\ tts_book_meta' = [tts_book_meta EXCEPT ![run.book][text_of(i)] =
                            File(Meta(task[i].val.duration, task[i].val.word_timings))]
    /\ task' = Goto(i, IF run.cache_enabled THEN "gaudio_open" ELSE "done")
    /\ UNCHANGED <<cleaned, kind, phase, run, nruns, output, dsFiles, tts_global_audio,
                   tts_global_meta, tts_book_audio, tts_book_idmeta, okCalls>>
    /\ UNCHANGED orchVars
    /\ UNCHANGED splitVars
    /\ UNCHANGED tocVars
    /\ UNCHANGED poolVars
    /\ UNCHANGED bookVars

\* _save_to_global_cache: shutil.copy2 creates the global audio file, then
\* fills it; then the metadata is opened and dumped.
tts_gaudio_open(i) ==
    /\ kind = "speech" /\ phase = "running"
    /\ task[i].pc = "gaudio_open"
    /\ tts_global_audio' = [tts_global_audio EXCEPT ![text_of(i)] = Partial]
    /\ task' = Goto(i, "gaudio_copy")
    /\ UNCHANGED <<cleaned, kind, phase, run, nruns, output, dsFiles, tts_global_meta,
                   tts_book_audio, tts_book_meta, tts_book_idmeta, okCalls>>
    /\ UNCHANGED orchVars
    /\ UNCHANGED splitVars
    /\ UNCHANGED tocVars
    /\ UNCHANGED poolVars
    /\ UNCHANGED bookVars

tts_gaudio_copy(i) ==
    /\ kind = "speech" /\ phase = "running"
    /\ task[i].pc = "gaudio_copy"
    /\ tts_global_audio' = [tts_global_audio EXCEPT
                              ![text_of(i)] = tts_book_audio[run.book][text_of(i)]]
    /\ task' = Goto(i, "gmeta_open")
    /\ UNCHANGED <<cleaned, kind, phase, run, nruns, output, dsFiles, tts_global_meta,
                   tts_book_audio, tts_book_meta, tts_book_idmeta, okCalls>>
    /\ UNCHANGED orchVars
    /\ UNCHANGED splitVars
    /\ UNCHANGED tocVars
    /\ UNCHANGED poolVars
    /\ UNCHANGED bookVars

tts_gmeta_open(i) ==
    /\ kind = "speech" /\ phase = "running"
    /\ task[i].pc = "gmeta_open"
    /\ tts_global_meta' = [tts_global_meta EXCEPT ![text_of(i)] = Partial]
    /\ task' = Goto(i, "gmeta_dump")
    /\ UNCHANGED <<cleaned, kind, phase, run, nruns, output, dsFiles, tts_global_audio,
                   tts_book_audio, tts_book_meta, tts_book_idmeta, okCalls>>
    /\ UNCHANGED orchVars
    /\ UNCHANGED splitVars
    /\ UNCHANGED tocVars
    /\ UNCHANGED poolVars
    /\ UNCHANGED bookVars

tts_gmeta_dump(i) ==
    /\ kind = "speech" /\ phase = "running"
    /\ task[i].pc = "gmeta_dump"
    /\ tts_global_meta' = [tts_global_meta EXCEPT ![text_of(i)] =
                              File(Meta(task[i].val.duration, task[i].val.word_timings))]
    /\ task' = Goto(i, "done")
    /\ UNCHANGED <<cleaned, kind, phase, run, nruns, output, dsFiles, tts_global_audio,
                   tts_book_audio, tts_book_meta, tts_book_idmeta, okCalls>>
    /\ UNCHANGED orchVars
    /\ UNCHANGED splitVars
    /\ UNCHANGED tocVars
    /\ UNCHANGED poolVars
    /\ UNCHANGED bookVars

\* The paragraph process_paragraphs appends for future i: the paragraph
\* updated with the speech information, or the paragraph as it came when the
\* future raised.
WithSpeech(paragraphs, i, t) ==
    [id |-> paragraphs[i].id, type |-> paragraphs[i].type,
     content |-> paragraphs[i].content,
     has_original |-> FALSE, original_content |-> <<>>,
     has_audio |-> t.via # "exception",
     audio |-> IF t.via # "exception" THEN t.val ELSE NoVal,
     src |-> i]

\* The sort key of process_paragraphs: the position of the first input
\* paragraph that has the id of p.
SortKey(paragraphs, p) ==
    CHOOSE j \in 1..Len(paragraphs) :
        /\ paragraphs[j].id = p.id
        /\ \A k \in 1..(j - 1) : paragraphs[k].id # p.id

\* list.sort(key=...): stable.
RECURSIVE InsertByKey(_, _, _)
InsertByKey(sorted, p, paragraphs) ==
    IF sorted = <<>> THEN <<p>>
    ELSE IF SortKey(paragraphs, sorted[Len(sorted)]) <= SortKey(paragraphs, p)
    THEN Append(sorted, p)
    ELSE Append(InsertByKey(SubSeq(sorted, 1, Len(sorted) - 1), p, paragraphs),
                sorted[Len(sorted)])

RECURSIVE SortByKey(_, _)
SortByKey(seq, paragraphs) ==
    IF seq = <<>> THEN <<>>
    ELSE InsertByKey(SortByKey(SubSeq(seq, 1, Len(seq) - 1), paragraphs),
                     seq[Len(seq)], paragraphs)

\* process_paragraphs after the pool: the futures in submission order, then
\* the sort.
fan_in(paragraphs, tasks) ==
    SortByKey([i \in DOMAIN tasks |-> WithSpeech(paragraphs, i, tasks[i])], paragraphs)

process_paragraphs ==
    /\ kind = "speech" /\ phase = "running"
    /\ \A i \in DOMAIN task : task[i].pc = "done"
    /\ output' = fan_in(run.paragraphs, task)
    /\ phase' = "done"
    /\ UNCHANGED <<cleaned, kind, run, nruns, task, dsFiles, ttsFiles, okCalls>>
    /\ UNCHANGED orchVars
    /\ UNCHANGED splitVars
    /\ UNCHANGED tocVars
    /\ UNCHANGED poolVars
    /\ UNCHANGED bookVars

\* No paragraph has been handed to the segmenter.
NotSplit == <<[id |-> <<>>, type |-> "not split", content |-> <<>>, image_path |-> None]>>
NoPara == [id |-> <<>>, type |-> "none", content |-> <<>>, image_path |-> None]

SplitIdle ==
    /\ paragraph = NoPara
    /\ max_chars = 0
    /\ segments = NotSplit

\* No container has been opened for navigation.
NoEpub == [ncx |-> "absent", nav |-> "absent", outline |-> <<>>, spine |-> <<>>]
NotParsed == [status |-> "none", strategy |-> "none", items |-> <<>>]
NotFlat == <<[id |-> <<>>, title |-> <<>>, level |-> -1, file_name |-> <<>>,
             parent_title |-> <<>>]>>

\* The value of picked before parse_chapters is called.
NotPicked == <<[id |-> <<>>, title |-> <<>>, file_name |-> <<>>]>>

TocIdle ==
    /\ epub = NoEpub /\ toc_items = NotParsed /\ toc_map = <<>> /\ flat_toc = NotFlat
    /\ choice = 0 /\ picked = NotPicked

\* No fan-out stage is under way.
PoolIdle == pool_stage = "none" /\ work = <<>> /\ threads = 0 /\ sem_value = 0

\* The value of chapters, split_chapters and resplit before the call.
NotParsedBook ==
    <<[id |-> <<"none">>, title |-> "none", file_name |-> <<"none">>, paragraphs |-> <<>>]>>

\* No book is being extracted.
BookIdle ==
    /\ soups = <<>> /\ book_max = 0
    /\ chapters = NotParsedBook /\ split_chapters = NotParsedBook /\ resplit = NotParsedBook
    /\ html_files = <<>> /\ rendered = NotParsedBook
    /\ video_files = <<>> /\ recorded = NotParsedBook

OrchInit ==
    /\ cacheIndex = [p \in Paths |-> NoBook]
    /\ progressFile = [b \in BookIds |-> NoProgress]
    /\ dataFile = [b \in BookIds |-> [s \in SavedStages |-> Absent]]
    /\ nextId = 1
    /\ pc = PcNone
    /\ gen = NoGen
    /\ executed = <<>>
    /\ result = "none"
    /\ ngen = 0
    /\ completed = [b \in BookIds |-> None]
    /\ docCompleted = [p \in Paths |-> None]

FanInit ==
    /\ phase = "idle"
    /\ run = NoRun
    /\ nruns = 0
    /\ task = <<>>
    /\ output = <<>>
    /\ deepseek_global = [t \in Texts |-> Absent]
    /\ deepseek_book = [b \in FanBooks |-> [t \in Texts |-> Absent]]
    /\ tts_global_audio = [t \in Texts |-> Absent]
    /\ tts_global_meta = [t \in Texts |-> Absent]
    /\ tts_book_audio = [b \in FanBooks |-> [t \in Texts |-> Absent]]
    /\ tts_book_meta = [b \in FanBooks |-> [t \in Texts |-> Absent]]
    /\ tts_book_idmeta = [b \in FanBooks |-> [id \in {"p1", "p2"} |-> 0]]
    /\ okCalls = [t \in Texts |-> 0]
    /\ cleaned = 0

Init ==
    /\ OrchInit
    /\ FanInit
    /\ SplitIdle
    /\ TocIdle
    /\ PoolIdle
    /\ BookIdle
    /\ kind = "rewrite"

Next ==
    \/ \E p \in Paths, uc \in BOOLEAN, cc \in BOOLEAN : NewGenerator(p, uc, cc)
    \/ generate
    \/ parse_book
    \/ split_content
    \/ process_text
    \/ generate_speech
    \/ render_html
    \/ record_videos
    \/ process_videos
    \/ save_open_progress
    \/ save_dump_progress
    \/ save_open_data
    \/ save_dump_data
    \/ StageRaises
    \/ ProcessDies

Spec == Init /\ [][Next]_vars

InitFan ==
    /\ OrchInit
    /\ FanInit
    /\ SplitIdle
    /\ TocIdle
    /\ PoolIdle
    /\ BookIdle
    /\ kind \in {"rewrite", "speech"}

NextFan ==
    \/ \E b \in FanBooks, cfg \in RunConfigs, ps \in FanInputs : StartRun(b, cfg, ps)
    \/ \E i \in DOMAIN task : ds_image(i)
    \/ \E i \in DOMAIN task : ds_is_cached(i)
    \/ \E i \in DOMAIN task : ds_get_from_cache(i)
    \/ \E i \in DOMAIN task : ds_no_key(i)
    \/ \E i \in DOMAIN task, c \in Replies : ds_call_ok(i, c)
    \/ \E i \in DOMAIN task : ds_call_fails(i)
    \/ \E i \in DOMAIN task : ds_save_open_global(i)
    \/ \E i \in DOMAIN task : ds_save_dump_global(i)
    \/ \E i \in DOMAIN task : ds_save_open_book(i)
    \/ \E i \in DOMAIN task : ds_save_dump_book(i)
    \/ process_chapters
    \/ \E i \in DOMAIN task : tts_empty(i)
    \/ \E i \in DOMAIN task : tts_check_global(i)
    \/ \E i \in DOMAIN task : tts_copy_audio(i)
    \/ \E i \in DOMAIN task : tts_copy_read_meta(i)
    \/ \E i \in DOMAIN task : tts_copy_open_meta(i)
    \/ \E i \in DOMAIN task : tts_copy_dump_meta(i)
    \/ \E i \in DOMAIN task : tts_is_generated(i)
    \/ \E i \in DOMAIN task : tts_read_book_meta(i)
    \/ \E i \in DOMAIN task : tts_no_key(i)
    \/ \E i \in DOMAIN task, w \in SpeechReplies : tts_synth_ok(i, w)
    \/ \E i \in DOMAIN task : tts_synth_fails(i)
    \/ \E i \in DOMAIN task : tts_meta_open(i)
    \/ \E i \in DOMAIN task : tts_meta_dump(i)
    \/ \E i \in DOMAIN task : tts_gaudio_open(i)
    \/ \E i \in DOMAIN task : tts_gaudio_copy(i)
    \/ \E i \in DOMAIN task : tts_gmeta_open(i)
    \/ \E i \in DOMAIN task : tts_gmeta_dump(i)
    \/ process_paragraphs

SpecFan == InitFan /\ [][NextFan]_vars

----------------------------------------------------------------------------
\* The fan-in alone: the pool runs process_paragraph / generate_speech for
\* each paragraph of a list, in any order, and the stage collects the results.
\* What a task returns (a result, or its failure) is an input here.

MaxSegs == 3    \* paragraphs in a list

OrderParas == { Para(id, "text", t) : id \in {"p1", "p2"}, t \in Texts }
OrderInputs == UNION { [1..n -> OrderParas] : n \in 1..MaxSegs }

\* The future of paragraph i completes: process_paragraph returns the
\* rewritten or the unmodified text; generate_speech returns the speech
\* information or raises.
future_done(i, ok) ==
    /\ phase = "running"
    /\ task[i].pc = "queued"
    /\ task' = IF kind = "rewrite"
               THEN IF ok THEN Finish(i, TextVal(<<"x">>), "api")
                          ELSE Finish(i, TextVal(text_of(i)), "fallback")
               ELSE IF ok THEN Finish(i, Val(<<>>, HashAudioPath(run.book, text_of(i)),
                                             3, SpeechWords), "api")
                          ELSE Finish(i, NoVal, "exception")
    /\ UNCHANGED <<cleaned, kind, phase, run, nruns, output, dsFiles, ttsFiles, okCalls>>
    /\ UNCHANGED orchVars
    /\ UNCHANGED splitVars
    /\ UNCHANGED tocVars
    /\ UNCHANGED poolVars
    /\ UNCHANGED bookVars

NextOrder ==
    \/ \E ps \in OrderInputs : StartRun(1, Config(TRUE, TRUE, TRUE), ps)
    \/ \E i \in DOMAIN task, ok \in BOOLEAN : future_done(i, ok)
    \/ process_chapters
    \/ process_paragraphs

SpecOrder == InitFan /\ [][NextOrder]_vars

----------------------------------------------------------------------------
\* CacheManager.clean_book_cache, applied to the files scopes leave behind.

\* TEMP_DIR.glob("*") in place of TEMP_DIR.glob(f"{book_id}_*") (mutation of
\* CleanBook).
CleanEveryBook(tier, book_id) == [b \in DOMAIN tier |-> [k \in DOMAIN tier[b] |-> Absent]]

\* The files matching TEMP_DIR/<book_id>_* are removed from a family of
\* per-book files.
CleanBook(tier, book_id) ==
    [b \in DOMAIN tier |->
        IF b = book_id THEN [k \in DOMAIN tier[b] |-> Absent] ELSE tier[b]]

clean_book_cache(book_id) ==
    /\ pc.at = "none" /\ phase = "idle"
    /\ cacheIndex' = [p \in Paths |->
                         IF cacheIndex[p] = book_id THEN NoBook ELSE cacheIndex[p]]
    /\ progressFile' = [b \in BookIds |->
                           IF b = book_id THEN NoProgress ELSE progressFile[b]]
    /\ dataFile' = CleanBook(dataFile, book_id)
    /\ deepseek_book' = CleanBook(deepseek_book, book_id)
    /\ tts_book_audio' = CleanBook(tts_book_audio, book_id)
    /\ tts_book_meta' = CleanBook(tts_book_meta, book_id)
    /\ tts_book_idmeta' = [b \in FanBooks |->
                              IF b = book_id THEN [id \in {"p1", "p2"} |-> 0]
                              ELSE tts_book_idmeta[b]]
    /\ cleaned' = book_id
    /\ UNCHANGED <<nextId, pc, gen, executed, result, ngen, completed, docCompleted>>
    /\ UNCHANGED <<kind, phase, run, nruns, task, output, deepseek_global,
                   tts_global_audio, tts_global_meta, okCalls>>
    /\ UNCHANGED splitVars
    /\ UNCHANGED tocVars
    /\ UNCHANGED poolVars
    /\ UNCHANGED bookVars

\* What runs of the pipeline leave on disk.  A scope with a checkpoint has
\* the record and the data of parse_book.  The rewriting cache writes the
\* global file before the book file and nothing removes a global file, so a
\* book entry comes with a global one; the speech stage writes the book
\* files also when the global store is skipped.
RewriteEntry(oral_text) == File(TextVal(oral_text))
SpeechEntry == File(Meta(3, SpeechWords))

InitClean ==
    /\ cacheIndex = [p \in Paths |-> NoBook]
    /\ \E saved \in SUBSET BookIds :
          /\ progressFile = [b \in BookIds |->
                                IF b \in saved THEN File("parse_book") ELSE NoProgress]
          /\ dataFile = [b \in BookIds |-> [s \in SavedStages |->
                            IF b \in saved /\ s = "parse_book"
                            THEN File(<<"parse_book">>) ELSE Absent]]
          /\ completed = [b \in BookIds |-> IF b \in saved THEN "parse_book" ELSE None]
    /\ nextId = 1 /\ pc = PcNone /\ gen = NoGen /\ executed = <<>> /\ result = "none"
    /\ ngen = 0
    /\ docCompleted = [p \in Paths |-> None]
    /\ kind \in {"rewrite", "speech"}
    /\ phase = "idle" /\ run = NoRun /\ nruns = 0 /\ task = <<>> /\ output = <<>>
    /\ okCalls = [t \in Texts |-> 0]
    /\ cleaned = 0
    /\ SplitIdle
    /\ TocIdle
    /\ PoolIdle
    /\ BookIdle
    /\ \E held \in SUBSET (FanBooks \X Texts), glob \in SUBSET Texts,
          oral_text \in {clean_reply(c) : c \in Replies} :
          IF kind = "rewrite"
          THEN /\ \A h \in held : h[2] \in glob
               /\ deepseek_global = [t \in Texts |->
                                        IF t \in glob THEN RewriteEntry(oral_text) ELSE Absent]
               /\ deepseek_book = [b \in FanBooks |-> [t \in Texts |->
                                      IF <<b, t>> \in held THEN RewriteEntry(oral_text) ELSE Absent]]
               /\ tts_global_audio = [t \in Texts |-> Absent]
               /\ tts_global_meta = [t \in Texts |-> Absent]
               /\ tts_book_audio = [b \in FanBooks |-> [t \in Texts |-> Absent]]
               /\ tts_book_meta = [b \in FanBooks |-> [t \in Texts |-> Absent]]
               /\ tts_book_idmeta = [b \in FanBooks |-> [id \in {"p1", "p2"} |-> 0]]
          ELSE /\ deepseek_global = [t \in Texts |-> Absent]
               /\ deepseek_book = [b \in FanBooks |-> [t \in Texts |-> Absent]]
               /\ tts_global_audio = [t \in Texts |->
                                         IF t \in glob THEN File(AudioOf(t)) ELSE Absent]
               /\ tts_global_meta = [t \in Texts |->
                                        IF t \in glob THEN SpeechEntry ELSE Absent]
               /\ tts_book_audio = [b \in FanBooks |-> [t \in Texts |->
                                       IF <<b, t>> \in held THEN File(AudioOf(t)) ELSE Absent]]
               /\ tts_book_meta = [b \in FanBooks |-> [t \in Texts |->
                                      IF <<b, t>> \in held THEN SpeechEntry ELSE Absent]]
               /\ tts_book_idmeta = [b \in FanBooks |-> [id \in {"p1", "p2"} |->
                                        IF id = "p1" /\ \E t \in Texts : <<b, t>> \in held
                                        THEN 10 ELSE 0]]

NextClean == \E b \in BookIds : clean_book_cache(b)

SpecClean == InitClean /\ [][NextClean]_vars

----------------------------------------------------------------------------
\* ContentSplitter.

MaxLen == 5       \* characters in a paragraph
MaxBudget == 3    \* largest max_chars_per_segment

\* Characters of paragraphs: a letter, a blank, the ASCII full stop, and
\* sentence endings.
FULL_STOP == "ideographic full stop"
FW_EXCLAMATION == "fullwidth exclamation mark"
FW_QUESTION == "fullwidth question mark"

Alphabet == {"a", " ", ".", "!", FULL_STOP}

SplitTexts == UNION { [1..n -> Alphabet] : n \in 0..MaxLen }

SplitPara(id, type, content) ==
    [id |-> id, type |-> type, content |-> content, image_path |-> None]

SplitInputs == { SplitPara(<<"p1">>, type, content) :
                    type \in {"text", "image"}, content \in SplitTexts }

\* The character class of sentence_endings.
SentenceEndings == {FULL_STOP, FW_EXCLAMATION, FW_QUESTION, "!", "?"}

\* re.split on maximal runs of endings, each run joined to the part before
\* it; the part after the last run comes last (it may be empty).
RECURSIVE SentencesBy(_, _)
SentencesBy(text, endings) ==
    IF \A i \in 1..Len(text) : text[i] \notin endings THEN <<text>>
    ELSE LET first == CHOOSE i \in 1..Len(text) :
                          /\ text[i] \in endings
                          /\ \A j \in 1..(i - 1) : text[j] \notin endings
             last == CHOOSE k \in first..Len(text) :
                         /\ \A j \in first..k : text[j] \in endings
                         /\ k = Len(text) \/ text[k + 1] \notin endings
         IN <<SubSeq(text, 1, last)>>
                \o SentencesBy(SubSeq(text, last + 1, Len(text)), endings)

\* _split_into_sentences without joining the punctuation to its sentence
\* (mutation of split_into_sentences).
split_into_sentences_unjoined(text) ==
    LET joined == SentencesBy(text, SentenceEndings)
    IN [i \in DOMAIN joined |-> SelectSeq(joined[i], LAMBDA c : c \notin SentenceEndings)]

\* ContentSplitter._split_into_sentences.
split_into_sentences(text) == SentencesBy(text, SentenceEndings)

\* hashlib.md5(...).hexdigest()[:8], as an abstract digest: equal exactly
\* for equal strings (collisions are not modelled).
md5_8(s) == <<"md5", s>>

\* The segment split_paragraph appends for current_segment.
SubSegment(parent_id, current_segment) ==
    [id |-> Append(parent_id, md5_8(current_segment)),
     type |-> "text",
     content |-> strip(current_segment, {" "}),
     image_path |-> None]

\* len(current_segment) + len(sentence) < self.max_chars (mutation of
\* fits).
fits_below(current_segment, sentence, max) ==
    Len(current_segment) + Len(sentence) < max

\* len(current_segment) + len(sentence) <= self.max_chars.
fits(current_segment, sentence, max) ==
    Len(current_segment) + Len(sentence) <= max

\* The loop of split_paragraph over the sentences, and the last segment.
RECURSIVE pack(_, _, _, _, _)
pack(sentences, current_segment, segs, parent_id, max) ==
    IF sentences = <<>>
    THEN IF current_segment # <<>>
         THEN Append(segs, SubSegment(parent_id, current_segment)) ELSE segs
    ELSE LET sentence == Head(sentences)
         IN IF fits(current_segment, sentence, max)
            THEN pack(Tail(sentences), current_segment \o sentence, segs, parent_id, max)
            ELSE pack(Tail(sentences), sentence,
                      IF current_segment # <<>>
                      THEN Append(segs, SubSegment(parent_id, current_segment))
                      ELSE segs,
                      parent_id, max)

\* len(content) < self.max_chars (mutation of within_budget).
below_budget(content, max) == Len(content) < max

\* len(content) <= self.max_chars.
within_budget(content, max) == Len(content) <= max

\* What split_paragraph returns.
split(p, max) ==
    IF p.type = "image" THEN <<p>>
    ELSE IF within_budget(p.content, max) THEN <<p>>
    ELSE pack(split_into_sentences(p.content), <<>>, <<>>, p.id, max)

split_paragraph ==
    /\ segments = NotSplit
    /\ paragraph # NoPara
    /\ segments' = split(paragraph, max_chars)
    /\ UNCHANGED <<paragraph, max_chars>>
    /\ UNCHANGED orchVars
    /\ UNCHANGED fanVars
    /\ UNCHANGED tocVars
    /\ UNCHANGED poolVars
    /\ UNCHANGED bookVars

InitSplit ==
    /\ OrchInit
    /\ FanInit
    /\ kind = "rewrite"
    /\ paragraph \in SplitInputs
    /\ max_chars \in 1..MaxBudget
    /\ segments = NotSplit
    /\ TocIdle
    /\ PoolIdle
    /\ BookIdle

NextSplit == split_paragraph

SpecSplit == InitSplit /\ [][NextSplit]_vars

----------------------------------------------------------------------------
\* The chapter data behind a lineage: what the stages of generate() make of
\* the paragraphs of one chapter, stage by stage.

max_chars_per_segment == 3   \* AudiobookVideoGenerator(max_chars_per_segment=...)

\* The lists of a list, joined in order (list.extend in a loop).
RECURSIVE Concat(_)
Concat(ss) == IF ss = <<>> THEN <<>> ELSE Head(ss) \o Concat(Tail(ss))

\* A paragraph with the fields later stages set: original_content (absent
\* until has_original) and the names of the other fields added so far.
FullPara(id, type, content, image_path) ==
    [id |-> id, type |-> type, content |-> content, image_path |-> image_path,
     has_original |-> FALSE, original_content |-> <<>>, added |-> {}]

\* EpubParser.parse_chapters on the modelled book: an image and a text.
ParsedText == <<"a", "!">>

ParsedParagraphs ==
    << FullPara(<<"p0">>, "image", <<>>, "img"),
       FullPara(<<"p1">>, "text", ParsedText, None) >>

\* A text the rewriting service may give back.
OralText == <<"b", "!", " ", "b", "!">>

\* split_book_content on one chapter: the paragraphs split_paragraph
\* returns, the new ones with the four fields it gives them.
split_book_content(paragraphs) ==
    Concat([i \in DOMAIN paragraphs |->
        LET segs == split(paragraphs[i], max_chars_per_segment)
        IN [j \in DOMAIN segs |->
               IF "added" \in DOMAIN segs[j] THEN segs[j]
               ELSE FullPara(segs[j].id, segs[j].type, segs[j].content,
                             segs[j].image_path)]])

\* DeepSeekProcessor.process_paragraph, given what convert_to_oral returned.
process_paragraph(p, oral_text) ==
    IF p.type = "image" THEN p
    ELSE [p EXCEPT !.has_original = TRUE,
                   !.original_content = p.content,
                   !.content = oral_text]

\* DeepSeekProcessor.process_chapters on one chapter, every outcome:
\* convert_to_oral returns the text itself (no client, failed request) or
\* the cleaned answer.
process_chapter_paragraphs(paragraphs) ==
    { [i \in DOMAIN paragraphs |->
          process_paragraph(paragraphs[i],
                            IF answer[i] = "same" THEN paragraphs[i].content
                            ELSE OralText)] :
      answer \in [DOMAIN paragraphs -> {"same", "oral"}] }

\* paragraph.copy() with fields added (speech, rendering, capture).
AddFields(paragraphs, fields) ==
    [i \in DOMAIN paragraphs |-> [paragraphs[i] EXCEPT !.added = @ \cup fields]]

\* The paragraphs a stage can return for the paragraphs it is given.
StageOutputs(s, paragraphs) ==
    CASE s = "parse_book" -> {ParsedParagraphs}
      [] s = "split_content" -> {split_book_content(paragraphs)}
      [] s = "process_text" -> process_chapter_paragraphs(paragraphs)
      [] s = "generate_speech" ->
            {AddFields(paragraphs, {"audio_path", "duration", "word_timings"})}
      [] s = "render_html" -> {AddFields(paragraphs, {"html_path"})}
      [] s = "record_videos" -> {AddFields(paragraphs, {"video_path"})}
      [] s = "process_videos" -> {paragraphs}

\* The paragraphs a lineage can stand for.
RECURSIVE ChaptersOf(_)
ChaptersOf(lineage) ==
    IF lineage = <<>> THEN {<<>>}
    ELSE UNION { StageOutputs(lineage[Len(lineage)], paragraphs) :
                   paragraphs \in ChaptersOf(SubSeq(lineage, 1, Len(lineage) - 1)) }

----------------------------------------------------------------------------
\* TocParser.

MaxNodes == 3     \* entries in the navigation outline of a container

\* An entry of the outline (an NCX navPoint, or an li of the nav document):
\* its position in document order, whether it has a link of its own, and
\* the entries nested in it.
Entry(key, link, children) == [key |-> key, link |-> link, children |-> children]

\* The outlines of n entries, numbered from first in document order.
RECURSIVE Outlines(_, _)
Outlines(n, first) ==
    IF n = 0 THEN {<<>>}
    ELSE UNION { { <<Entry(first, link, children)>> \o rest :
                     link \in BOOLEAN,
                     children \in Outlines(k, first + 1),
                     rest \in Outlines(n - 1 - k, first + 1 + k) } :
                 k \in 0..(n - 1) }

\* The spine: per itemref, whether get_item_with_id finds the item.
Spines == { <<>>, <<"item">>, <<"missing">>, <<"item", "item">>,
            <<"item", "missing">>, <<"missing", "item">> }

\* What the container holds as NCX and as nav document.
NcxStates == {"absent", "ok", "no_navmap", "malformed", "undecodable"}
NavStates == {"absent", "ok", "no_nav", "no_ol", "undecodable"}

Epubs == [ncx : NcxStates, nav : NavStates,
          outline : UNION { Outlines(n, 1) : n \in 0..MaxNodes },
          spine : Spines]

TitleOf(key) == <<"title", key>>
FileOf(key) == <<"file", key>>
NoTitle == <<>>

NavItem(id, title, level, file_name, children) ==
    [id |-> id, title |-> title, level |-> level, file_name |-> file_name,
     children |-> children]

\* self.toc_map[nav_id] = {...}
Stored(map, nav_id, title, file_name) ==
    [x \in DOMAIN map \cup {nav_id} |->
        IF x = nav_id THEN [title |-> title, file_name |-> file_name] ELSE map[x]]

\* _parse_nav_points: <<nav_items, toc_map>>.  The id is the navPoint's own.
RECURSIVE parse_nav_points(_, _, _)
parse_nav_points(points, level, map) ==
    IF points = <<>> THEN <<<<>>, map>>
    ELSE LET nav_point == Head(points)
             nav_id == <<"np", nav_point.key>>
             sub == parse_nav_points(nav_point.children, level + 1, map)
             nav_item == NavItem(nav_id, TitleOf(nav_point.key), level,
                                 FileOf(nav_point.key), sub[1])
             rest == parse_nav_points(Tail(points), level,
                        Stored(sub[2], nav_id, nav_item.title, nav_item.file_name))
         IN <<<<nav_item>> \o rest[1], rest[2]>>

\* li_element.find('a'): the key of the first link in the li, in document
\* order, its own or one of a nested li; 0 when there is none.
RECURSIVE FirstLink(_)
FirstLink(lis) ==
    IF lis = <<>> THEN 0
    ELSE IF Head(lis).link THEN Head(lis).key
    ELSE IF FirstLink(Head(lis).children) # 0 THEN FirstLink(Head(lis).children)
    ELSE FirstLink(Tail(lis))

\* _parse_nav_items: <<nav_items, toc_map>>.  The id is taken from the size
\* of toc_map before the nested list is parsed; the entry is stored after.
RECURSIVE parse_nav_items(_, _, _)
parse_nav_items(lis, level, map) ==
    IF lis = <<>> THEN <<<<>>, map>>
    ELSE LET li_element == Head(lis)
             a_element == FirstLink(<<li_element>>)
         IN IF a_element = 0 THEN parse_nav_items(Tail(lis), level, map)
            ELSE LET nav_id == <<"nav", Cardinality(DOMAIN map)>>
                     sub == IF li_element.children # <<>>
                            THEN parse_nav_items(li_element.children, level + 1, map)
                            ELSE <<<<>>, map>>
                     nav_item == NavItem(nav_id, TitleOf(a_element), level,
                                         FileOf(a_element), sub[1])
                     rest == parse_nav_items(Tail(lis), level,
                                Stored(sub[2], nav_id, nav_item.title,
                                       nav_item.file_name))
                 IN <<<<nav_item>> \o rest[1], rest[2]>>

\* _create_spine_toc from itemref i (0-based) on: <<toc_items, toc_map>>.
RECURSIVE spine_toc_from(_, _, _)
spine_toc_from(spine, i, map) ==
    IF i >= Len(spine) THEN <<<<>>, map>>
    ELSE IF spine[i + 1] = "missing" THEN spine_toc_from(spine, i + 1, map)
    ELSE LET nav_id == <<"spine", i>>
             nav_item == NavItem(nav_id, <<"chapter", i + 1>>, 0, <<"spinefile", i>>, <<>>)
             rest == spine_toc_from(spine, i + 1,
                        Stored(map, nav_id, nav_item.title, nav_item.file_name))
         IN <<<<nav_item>> \o rest[1], rest[2]>>

Returned(strategy, got) ==
    <<[status |-> "returned", strategy |-> strategy, items |-> got[1]], got[2]>>

Raised == <<[status |-> "raised", strategy |-> "none", items |-> <<>>], <<>>>>

\* _create_spine_toc stopping after the first entry (mutation of
\* create_spine_toc).
create_spine_toc_first(e) ==
    LET got == spine_toc_from(e.spine, 0, <<>>)
    IN Returned("spine", <<SubSeq(got[1], 1, 1), got[2]>>)

create_spine_toc(e) == Returned("spine", spine_toc_from(e.spine, 0, <<>>))

\* _parse_ncx: the decode is outside the try; a parse error and a missing
\* navMap both end in _create_spine_toc.
parse_ncx(e) ==
    CASE e.ncx = "undecodable" -> Raised
      [] e.ncx = "malformed" -> create_spine_toc(e)
      [] e.ncx = "no_navmap" -> create_spine_toc(e)
      [] e.ncx = "ok" -> Returned("ncx", parse_nav_points(e.outline, 0, <<>>))

\* _parse_nav.
parse_nav(e) ==
    CASE e.nav = "undecodable" -> Raised
      [] e.nav = "no_nav" -> create_spine_toc(e)
      [] e.nav = "no_ol" -> create_spine_toc(e)
      [] e.nav = "ok" -> Returned("nav", parse_nav_items(e.outline, 0, <<>>))

\* What parse_toc gives: <<outcome, toc_map>>.
toc_of(e) ==
    IF e.ncx # "absent" THEN parse_ncx(e)
    ELSE IF e.nav # "absent" THEN parse_nav(e)
    ELSE create_spine_toc(e)

\* EpubParser.__init__: TocParser(book).parse_toc().
parse_toc ==
    /\ toc_items = NotParsed
    /\ epub # NoEpub
    /\ toc_items' = toc_of(epub)[1]
    /\ toc_map' = toc_of(epub)[2]
    /\ UNCHANGED <<epub, flat_toc, choice, picked>>
    /\ UNCHANGED orchVars
    /\ UNCHANGED fanVars
    /\ UNCHANGED splitVars
    /\ UNCHANGED poolVars
    /\ UNCHANGED bookVars

FlatItem(item, parent_title) ==
    [id |-> item.id, title |-> item.title, level |-> item.level,
     file_name |-> item.file_name, parent_title |-> parent_title]

\* process_items with an item appended after its children (mutation of
\* process_items).
RECURSIVE process_items_after(_, _)
process_items_after(items, parent_title) ==
    IF items = <<>> THEN <<>>
    ELSE process_items_after(Head(items).children, Head(items).title)
         \o <<FlatItem(Head(items), parent_title)>>
         \o process_items_after(Tail(items), parent_title)

\* flatten_toc.process_items: what it appends to flat_items.
RECURSIVE process_items(_, _)
process_items(items, parent_title) ==
    IF items = <<>> THEN <<>>
    ELSE <<FlatItem(Head(items), parent_title)>>
         \o process_items(Head(items).children, Head(items).title)
         \o process_items(Tail(items), parent_title)

\* What flatten_toc leaves of the items it was given: each item is copied
\* before children is popped, so they are as before.
items_after_flatten(items) == items

\* EpubParser.__init__: flatten_toc(self.toc_items).
flatten_toc ==
    /\ toc_items.status = "returned"
    /\ flat_toc = NotFlat
    /\ flat_toc' = process_items(toc_items.items, NoTitle)
    /\ toc_items' = [toc_items EXCEPT !.items = items_after_flatten(@)]
    /\ UNCHANGED <<epub, toc_map, choice, picked>>
    /\ UNCHANGED orchVars
    /\ UNCHANGED fanVars
    /\ UNCHANGED splitVars
    /\ UNCHANGED poolVars
    /\ UNCHANGED bookVars

\* The chapter _parse_selected_chapters appends for chapter_info.  The
\* entry's file stands for its file and fragment; the file is in the
\* container.
SelectedChapter(chapter_id, chapter_info) ==
    [id |-> chapter_id, title |-> chapter_info.title, file_name |-> chapter_info.file_name]

\* The loop over self.flat_toc: the first entry whose id is the chosen
\* line's id.
chapter_info_of(flat, line) ==
    flat[CHOOSE k \in 1..Len(flat) :
            /\ flat[k].id = flat[line].id
            /\ \A j \in 1..(k - 1) : flat[j].id # flat[line].id]

\* main: the user enters one line number of the printed list, its id is the
\* selection; parse_chapters(selected_chapters).
select_chapter(line) ==
    /\ flat_toc # NotFlat
    /\ choice = 0
    /\ choice' = line
    /\ picked' = << SelectedChapter(flat_toc[line].id, chapter_info_of(flat_toc, line)) >>
    /\ UNCHANGED <<epub, toc_items, toc_map, flat_toc>>
    /\ UNCHANGED orchVars
    /\ UNCHANGED fanVars
    /\ UNCHANGED splitVars
    /\ UNCHANGED poolVars
    /\ UNCHANGED bookVars

InitToc ==
    /\ OrchInit
    /\ FanInit
    /\ kind = "rewrite"
    /\ SplitIdle
    /\ PoolIdle
    /\ BookIdle
    /\ epub \in Epubs \ {NoEpub}
    /\ toc_items = NotParsed
    /\ toc_map = <<>>
    /\ flat_toc = NotFlat
    /\ choice = 0
    /\ picked = NotPicked

NextToc ==
    \/ parse_toc
    \/ flatten_toc
    \/ \E line \in 1..Len(flat_toc) : select_chapter(line)

SpecToc == InitToc /\ [][NextToc]_vars

----------------------------------------------------------------------------
\* The stages after stage s, in pipeline order.
StagesAfter(s) == SubSeq(StageOrder, StageIdx(s) + 1, Len(StageOrder))

\* C1: a generate() call that loaded a checkpoint naming stage N and returned
\* has run exactly the stages after N, each once, in pipeline order.
C1_ResumeRunsStagesAfterCheckpoint ==
    (result = "returned" /\ gen.last_stage # None)
        => executed = StagesAfter(gen.last_stage)

\* C2: a process started with caching on and no discard, on a document for
\* which an earlier process completed stage N, runs no stage up to N.
C2_RestartSkipsCompletedStages ==
    (pc.at # "none" /\ gen.use_cache /\ ~gen.clean_cache /\ gen.prior # None)
        => \A i \in 1..Len(executed) : StageIdx(executed[i]) > StageIdx(gen.prior)

\* C3: whenever no generate() call is at work on a scope (its last call
\* returned, raised, or its process died), the checkpoint of the scope's last
\* completed stage loads with its data; and a generate() call started on the
\* scope resumes after that stage.
C3_FailedRunKeepsLastCheckpoint ==
    /\ \A b \in BookIds :
          (completed[b] # None /\ ~(Running /\ gen.book_id = b))
              => load_progress(b, TRUE)[1] = completed[b]
    /\ (pc = PcAt("stage", "parse_book") /\ gen.use_cache /\ ~gen.clean_cache
            /\ completed[gen.book_id] # None)
          => gen.last_stage = completed[gen.book_id]


\* The input text an output paragraph was computed from.
InputText(o) == IF kind = "rewrite" THEN o.original_content ELSE o.content

\* C4: when a fan-out stage has returned, its output is as long as its input
\* and output position i holds the result computed for input paragraph i (its
\* id and its input text), whatever the ids and the completion order.
C4_OutputInInputOrder ==
    phase = "done" =>
        /\ Len(output) = Len(run.paragraphs)
        /\ \A i \in 1..Len(output) :
              /\ output[i].id = run.paragraphs[i].id
              /\ InputText(output[i]) = run.paragraphs[i].content

\* C5: with the cache on, no text is answered successfully by the rewriting
\* or the speech service more than once, within a run or across runs.
C5_AtMostOneCallPerText ==
    \A t \in Texts : okCalls[t] <= 1

\* The payload of a cached entry and of the value a task holds.
Payload(v) == <<v.text, v.duration, v.word_timings>>

\* C6: a lookup that reads a completely stored entry hits and returns the
\* stored payload: the task does not go on to the service, and its value is
\* the payload of the entry.
C6_StoreLookupRoundTrip ==
    \A i \in DOMAIN task :
        task[i].seen.state = "complete" =>
            /\ task[i].pc # "call_api"
            /\ task[i].via \in {"none", "cache"}
            /\ Payload(task[i].val) = Payload(task[i].seen.content)

\* The book tier of book alone holds the entry of text with the payload of val.
LocalHolds(book, text, val) ==
    IF kind = "rewrite"
    THEN /\ deepseek_book[book][text].state = "complete"
         /\ Payload(deepseek_book[book][text].content) = Payload(val)
    ELSE /\ tts_book_audio[book][text].state = "complete"
         /\ tts_book_meta[book][text].state = "complete"
         /\ Payload(tts_book_meta[book][text].content) = Payload(val)

\* C7: when a stage has returned, every task of it that hit the global tier
\* while the book tier did not hold the key has left the entry in the book
\* tier, with the payload it returned.
C7_GlobalHitCopiedDown ==
    phase = "done" =>
        \A i \in DOMAIN task :
            (task[i].via = "cache" /\ task[i].tier = "global" /\ ~task[i].local_had)
                => LocalHolds(run.book, text_of(i), task[i].val)

\* C8: during a stage run with CACHE_ENABLED off no task gets its result from
\* the cache and no step writes a file of the global tier or of the book tier
\* of either cache.
C8_DisabledCacheMissesAndWritesNothing ==
    [][(phase = "running" /\ ~run.cache_enabled) =>
          /\ \A i \in DOMAIN task' : task'[i].via # "cache"
          /\ deepseek_global' = deepseek_global
          /\ deepseek_book' = deepseek_book
          /\ tts_global_audio' = tts_global_audio
          /\ tts_global_meta' = tts_global_meta
          /\ tts_book_audio' = tts_book_audio
          /\ tts_book_meta' = tts_book_meta]_vars

\* C9: in a stage run started with use_cache off (--no-cache) no task gets
\* its result from an entry an earlier task stored.
C9_NoCacheReusesNothing ==
    \A i \in DOMAIN task : ~run.use_cache => task[i].via # "cache"

\* C10: when a fan-out stage has returned there is one output per input; a
\* rewriting task that failed left the unmodified text; every speech output
\* carries audio, and that of a failed task is a silent placeholder of one
\* second with an audio reference and no timings.
C10_FailedSegmentGetsSafeDefault ==
    phase = "done" =>
        /\ Len(output) = Len(run.paragraphs)
        /\ \A i \in 1..Len(output) :
              LET t == task[output[i].src]
              IN IF kind = "rewrite"
                 THEN (output[i].type = "text" /\ t.via = "fallback")
                          => output[i].content = output[i].original_content
                 ELSE /\ output[i].has_audio
                      /\ (t.via \in {"placeholder", "exception"}
                              /\ output[i].type = "text")
                            => /\ output[i].audio.audio_path # <<>>
                               /\ output[i].audio.duration = 10
                               /\ output[i].audio.word_timings = <<>>

\* C11: a stage run without a usable client (no API key, no speech key) is
\* cut short for the whole scope: it does not return a result to generate(),
\* and no text segment of it is given a default output.
C11_NoClientShortCircuitsStage ==
    (phase # "idle" /\ ~run.has_key) =>
        /\ phase # "done"
        /\ \A i \in DOMAIN task :
              run.paragraphs[i].type = "text"
                  => task[i].via \notin {"fallback", "placeholder"}

\* C12: when generate() has discarded (clean_cache) and is about to run the
\* first stage, and no other document has ever saved a stage output, no
\* complete per-stage output file is left in any scope: those an earlier run
\* of this document wrote are gone.
C12_DiscardDeletesEarlierOutputs ==
    (/\ pc = PcAt("stage", "parse_book")
     /\ gen.clean_cache
     /\ \A q \in Paths \ {gen.epub_path} : docCompleted[q] = None)
        => \A b \in BookIds, s \in SavedStages : dataFile[b][s].state # "complete"

\* The checkpoint of book_id cannot be used: its record is unreadable, or the
\* data file the record points to is missing or unreadable.
RecordUnreadable(book_id) == progressFile[book_id].state = "partial"

DataUnusable(book_id) ==
    /\ progressFile[book_id].state = "complete"
    /\ dataFile[book_id][progressFile[book_id].content].state # "complete"

\* C13: a generate() call that loads (no discard, caching on) while the
\* record is unreadable, or the data file it points to is missing or
\* unreadable, gets no checkpoint, does not raise, and goes on to the first
\* stage, which it runs.
C13_UnusableCheckpointIsNoCheckpoint ==
    [][(/\ generate
        /\ ~gen.clean_cache /\ gen.use_cache
        /\ (RecordUnreadable(gen.book_id) \/ DataUnusable(gen.book_id)))
          => /\ gen'.last_stage = None
             /\ result' = "running"
             /\ pc' = PcAt("stage", "parse_book")
             /\ ShouldRun("parse_book", gen'.last_stage)]_vars

\* C13 witness: generate() has just loaded from a record that names a stage
\* whose data file is not complete, and stands before the first stage.
C13_Witness ==
    /\ pc = PcAt("stage", "parse_book")
    /\ executed = <<>>
    /\ ~gen.clean_cache /\ gen.use_cache
    /\ DataUnusable(gen.book_id)
    /\ gen.last_stage = None

\* The global tier holds a complete entry for text; a book other than the
\* one of the current run holds one too (an earlier run of another document
\* stored it).
GlobalComplete(text) ==
    IF kind = "rewrite" THEN deepseek_global[text].state = "complete"
    ELSE /\ tts_global_audio[text].state = "complete"
         /\ tts_global_meta[text].state = "complete"

GlobalEntry(text) ==
    IF kind = "rewrite" THEN deepseek_global[text].content
    ELSE tts_global_meta[text].content

StoredByOther(text) ==
    \E b \in FanBooks \ {run.book} :
        IF kind = "rewrite" THEN deepseek_book[b][text].state = "complete"
        ELSE /\ tts_book_audio[b][text].state = "complete"
             /\ tts_book_meta[b][text].state = "complete"

\* The positions of a task that is answering from the cache.
HitPcs == {"get_from_cache", "copy_audio", "copy_read_meta", "copy_open_meta",
           "copy_dump_meta", "done"}

\* C14: with the cache on, while the global tier holds the complete entry
\* another document's run stored for a text, every step of a task that looks
\* the text up stays on the cache path (no external call), and the task ends
\* with the stored payload.
C14_EntryReusedAcrossDocuments ==
    [][\A i \in DOMAIN task :
          (/\ phase = "running" /\ run.cache_enabled
           /\ run.paragraphs[i].type = "text"
           /\ GlobalComplete(text_of(i)) /\ StoredByOther(text_of(i))
           /\ task[i].pc \in (HitPcs \ {"done"}) \cup {"queued"}
           /\ task'[i].pc # task[i].pc)
             => /\ task'[i].pc \in HitPcs
                /\ task'[i].pc = "done"
                      => /\ task'[i].via = "cache"
                         /\ Payload(task'[i].val) = Payload(GlobalEntry(text_of(i)))]_vars

\* The lookup of scope book for text goes to the global tier; its answer.
ThroughGlobal(book, text) ==
    IF kind = "rewrite"
    THEN is_cached(TRUE, book, text) /\ get_cache_path(book, text)[1] = "global"
    ELSE is_in_global_cache(TRUE, text)

LookupAnswer(book, text) ==
    IF kind = "rewrite" THEN get_from_cache(TRUE, book, text)
    ELSE [hit |-> tts_global_meta[text].state = "complete", text |-> <<>>]

\* The lookup of scope book for text hits through the global tier.
HitsThroughGlobal(book, text) ==
    ThroughGlobal(book, text) /\ LookupAnswer(book, text).hit

\* Scope book has nothing left: no index entry, checkpoint, stage data or
\* scope-local cache file.
ScopeEmpty(book) ==
    /\ \A p \in Paths : cacheIndex[p] # book
    /\ progressFile[book].state = "absent"
    /\ \A s \in SavedStages : dataFile[book][s].state = "absent"
    /\ book \in FanBooks =>
          /\ \A t \in Texts : /\ deepseek_book[book][t].state = "absent"
                              /\ tts_book_audio[book][t].state = "absent"
                              /\ tts_book_meta[book][t].state = "absent"
          /\ \A id \in {"p1", "p2"} : tts_book_idmeta[book][id] = 0

\* The files and index entries of scope book.
ScopeFiles(book) ==
    <<{p \in Paths : cacheIndex[p] = book}, progressFile[book], dataFile[book],
      IF book \in FanBooks
      THEN <<deepseek_book[book], tts_book_audio[book], tts_book_meta[book],
             tts_book_idmeta[book]>>
      ELSE <<>>>>

GlobalTier == <<deepseek_global, tts_global_audio, tts_global_meta>>

C16_SmallOrImageReturnedUnchanged ==
    (/\ segments # NotSplit
     /\ \/ paragraph.type = "image"
        \/ Len(paragraph.content) <= max_chars)
    => segments = <<paragraph>>

\* A text of length exactly max_chars has been split.
C16_Witness ==
    /\ segments = <<paragraph>>
    /\ paragraph.type = "text"
    /\ Len(paragraph.content) = max_chars

\* The terminal punctuation of the specification: '.', '!', '?' and their
\* CJK equivalents.
ClaimEndings == SentenceEndings \cup {"."}

ClaimSentences(text) == SentencesBy(text, ClaimEndings)

\* segs are, in order, runs of consecutive pieces with the blanks at the
\* ends of each run trimmed; pieces left over are blank.
RECURSIVE MadeOf(_, _)
MadeOf(segs, pieces) ==
    IF segs = <<>> THEN \A i \in DOMAIN pieces : strip(pieces[i], {" "}) = <<>>
    ELSE \E k \in 1..Len(pieces) :
            /\ strip(Concat(SubSeq(pieces, 1, k)), {" "}) = segs[1].content
            /\ MadeOf(Tail(segs), SubSeq(pieces, k + 1, Len(pieces)))

Oversized == paragraph.type = "text" /\ Len(paragraph.content) > max_chars

\* C17: for oversized text every returned segment has length at most
\* max_chars or is exactly one sentence longer than max_chars, and no
\* sentence is divided between two segments, a sentence ending at a maximal
\* run of '.', '!', '?' or their CJK equivalents.
C17_SegmentsFitOrAreOneSentence ==
    (segments # NotSplit /\ Oversized)
    => /\ \A i \in DOMAIN segments :
            \/ Len(segments[i].content) <= max_chars
            \/ \E j \in DOMAIN ClaimSentences(paragraph.content) :
                  strip(ClaimSentences(paragraph.content)[j], {" "}) = segments[i].content
       /\ MadeOf(segments, ClaimSentences(paragraph.content))

\* C18: concatenating, in order, the contents of the segments returned for
\* an oversized text reproduces the original text: nothing is lost,
\* duplicated or reordered, and only blanks at the ends of each run may
\* differ from the original.
C18_SegmentsReproduceText ==
    (segments # NotSplit /\ Oversized)
    => MadeOf(segments, [i \in 1..Len(paragraph.content) |-> <<paragraph.content[i]>>])

\* An oversized text came back as several segments, and trimming removed
\* a blank.
C18_Witness ==
    /\ segments # NotSplit
    /\ Oversized
    /\ Len(segments) >= 2
    /\ Concat([i \in DOMAIN segments |-> segments[i].content]) # paragraph.content

\* C19: each derived sub-segment's id is the parent id followed by the
\* digest of that sub-segment's stored (trimmed) content, so that two
\* sub-segments of one parent with equal stored content have equal ids.
C19_IdIsDigestOfStoredContent ==
    (segments # NotSplit /\ Oversized)
    => /\ \A i \in DOMAIN segments :
            segments[i].id = Append(paragraph.id, md5_8(segments[i].content))
       /\ \A i, j \in DOMAIN segments :
            segments[i].content = segments[j].content => segments[i].id = segments[j].id

\* What split_content makes of the parsed paragraphs: the segments.
Segmented == split_book_content(ParsedParagraphs)

\* The original text of a segment: the text kept aside by the rewriting
\* stage when there is one, its content otherwise.
OriginalText(p) == IF p.has_original THEN p.original_content ELSE p.content

\* C20: across every stage after segmentation and any sequence of runs and
\* resumes, a segment's id and its original text are never changed: the
\* data in progress always holds the segments of the segmentation, with
\* their ids and their original text.
C20_IdAndOriginalTextKept ==
    (\E i \in DOMAIN gen.chapters : gen.chapters[i] = "split_content")
    => \A paragraphs \in ChaptersOf(gen.chapters) :
          /\ Len(paragraphs) = Len(Segmented)
          /\ \A i \in DOMAIN paragraphs :
                /\ paragraphs[i].id = Segmented[i].id
                /\ OriginalText(paragraphs[i]) = Segmented[i].content

\* The strategy the priority order gives: the NCX when it parses, else the
\* nav document when it parses, else the spine.
StrategyByPriority(e) ==
    IF e.ncx = "ok" THEN "ncx" ELSE IF e.nav = "ok" THEN "nav" ELSE "spine"

\* C21: parse_toc never raises to the caller; an NCX that is present but
\* fails to parse falls through to the nav document when the container has
\* one and otherwise to the spine, and a nav document that fails to parse
\* falls through to the spine.
C21_ParseFailureFallsThrough ==
    toc_items # NotParsed
    => /\ toc_items.status = "returned"
       /\ toc_items.strategy = StrategyByPriority(epub)

\* The ids of the nodes of a tree, in document order.
RECURSIVE IdsOf(_)
IdsOf(items) ==
    IF items = <<>> THEN <<>>
    ELSE <<Head(items).id>> \o IdsOf(Head(items).children) \o IdsOf(Tail(items))

\* C22: in every tree parse_toc returns, node ids are unique across the
\* whole tree, the synthetic ids of a nav document with nested lists
\* included, a parent and its children too.
C22_NodeIdsUnique ==
    toc_items.status = "returned"
    => \A i, j \in DOMAIN IdsOf(toc_items.items) :
          IdsOf(toc_items.items)[i] = IdsOf(toc_items.items)[j] => i = j

\* The number of nodes of a tree.
RECURSIVE NodeCount(_)
NodeCount(items) ==
    IF items = <<>> THEN 0
    ELSE 1 + NodeCount(Head(items).children) + NodeCount(Tail(items))

\* The nodes of a tree with their titles and files, in depth-first
\* pre-order: a parent before its descendants, siblings in their order.
RECURSIVE PreOrder(_)
PreOrder(items) ==
    IF items = <<>> THEN <<>>
    ELSE <<[id |-> Head(items).id, title |-> Head(items).title,
            level |-> Head(items).level, file_name |-> Head(items).file_name]>>
         \o PreOrder(Head(items).children) \o PreOrder(Tail(items))

\* C23: flatten_toc gives exactly one entry per node of the tree, in
\* depth-first pre-order, and leaves the tree it was given as it was.
C23_FlattenIsPreOrderAndTotal ==
    flat_toc # NotFlat
    => /\ Len(flat_toc) = NodeCount(toc_of(epub)[1].items)
       /\ \A i \in DOMAIN flat_toc :
            [id |-> flat_toc[i].id, title |-> flat_toc[i].title,
             level |-> flat_toc[i].level, file_name |-> flat_toc[i].file_name]
              = PreOrder(toc_of(epub)[1].items)[i]
       /\ toc_items = toc_of(epub)[1]

\* A tree in which a parent has a child and a later sibling was flattened.
C23_Witness ==
    /\ flat_toc # NotFlat
    /\ \E i \in DOMAIN toc_items.items :
          /\ toc_items.items[i].children # <<>>
          /\ i < Len(toc_items.items)

\* C24: after a run over a document with caching enabled, the cache index
\* maps the document's path to the run's scope id (so that a later run on
\* the path restores that id).
C24_IndexRecordsScopeOfRun ==
    (result = "returned" /\ gen.use_cache)
    => cacheIndex[gen.epub_path] = gen.book_id

\* C25: in every reachable state, between the two file writes of a save and
\* after a crash included, if a scope's checkpoint record names stage S then
\* the data file of (scope, S) exists and holds the complete output of S.
C25_RecordImpliesCompleteData ==
    \A b \in BookIds :
        progressFile[b].state = "complete"
        => /\ dataFile[b][progressFile[b].content].state = "complete"
           /\ LET lineage == dataFile[b][progressFile[b].content].content
              IN lineage # <<>> /\ lineage[Len(lineage)] = progressFile[b].content

\* C26: within a scope the stage named by the checkpoint record never moves
\* backward: every save, in a fresh run and in a resumed run, names a stage
\* later than the one recorded before it; only the discard resets it.
C26_CheckpointMovesForward ==
    [][ (save_open_progress /\ progressFile[gen.book_id].state = "complete")
        => StageIdx(pc.stage) > StageIdx(progressFile[gen.book_id].content) ]_vars

\* The stage the running generate() call completed last.
LastExecuted == executed[Len(executed)]

\* C27: after each stage of a run with caching enabled completes, the
\* stage's full output is persisted under (scope id, stage name) and the
\* checkpoint record names that stage, the final encoding stage included.
C27_EveryStageCheckpointed ==
    (/\ gen.use_cache
     /\ executed # <<>>
     /\ pc.at = "stage" \/ result = "returned")
    => /\ progressFile[gen.book_id] = File(LastExecuted)
       /\ LastExecuted \in SavedStages
       /\ dataFile[gen.book_id][LastExecuted] = File(gen.chapters)

\* A request to the service for the text of some task fails.
FailedCall == \E i \in DOMAIN task : ds_call_fails(i) \/ tts_synth_fails(i)

\* The cache files named after the key of a text, in both tiers.
KeyedFiles == <<deepseek_global, deepseek_book, tts_global_audio, tts_global_meta,
                tts_book_audio, tts_book_meta>>

\* The value of task i is one the service produced, not the input passed
\* through and not the silent placeholder.
FromService(i) ==
    IF kind = "rewrite"
    THEN task[i].val.text \in { clean_reply(c) : c \in Replies }
    ELSE /\ task[i].val.word_timings \in SpeechReplies
         /\ task[i].val.duration = speech_duration(text_of(i), task[i].val.word_timings)
         /\ task[i].val.audio_path = HashAudioPath(run.book, text_of(i))

\* C28: a failed external call for a text stores nothing under the text's
\* key in either cache tier, and what it returned (the input passed through,
\* the silent placeholder) is never given out as a cache hit.
C28_FailureIsNotCached ==
    /\ [][FailedCall => UNCHANGED KeyedFiles]_vars
    /\ [](\A i \in DOMAIN task : task[i].via = "cache" => FromService(i))

\* With the cache on, a call for a text has failed and another task for the
\* same text is at the service, or has been answered by it.
C28_Witness ==
    /\ phase = "running" /\ run.cache_enabled /\ run.has_key
    /\ \E i, j \in DOMAIN task :
          /\ i # j
          /\ run.paragraphs[i].type = "text" /\ run.paragraphs[j].type = "text"
          /\ text_of(i) = text_of(j)
          /\ task[i].pc = "done" /\ task[i].via \in {"fallback", "placeholder"}
          /\ task[j].pc \in {"call_api", "synth"} \/ task[j].via = "api"

\* Tasks i and j have both stored the result of their own call for one text.
BothStored(i, j) ==
    /\ i # j
    /\ run.cache_enabled
    /\ run.paragraphs[i].type = "text" /\ run.paragraphs[j].type = "text"
    /\ text_of(i) = text_of(j)
    /\ task[i].pc = "done" /\ task[i].via = "api"
    /\ task[j].pc = "done" /\ task[j].via = "api"

\* Both tiers hold a complete entry for the text of i with the payload of
\* task i or of task j.
EntryOfEither(i, j) ==
    IF kind = "rewrite"
    THEN /\ deepseek_global[text_of(i)] \in {File(task[i].val), File(task[j].val)}
         /\ deepseek_book[run.book][text_of(i)] \in {File(task[i].val), File(task[j].val)}
    ELSE LET metas == { File(Meta(task[k].val.duration, task[k].val.word_timings)) :
                          k \in {i, j} }
         IN /\ tts_global_audio[text_of(i)] = File(AudioOf(text_of(i)))
            /\ tts_book_audio[run.book][text_of(i)] = File(AudioOf(text_of(i)))
            /\ tts_global_meta[text_of(i)] \in metas
            /\ tts_book_meta[run.book][text_of(i)] \in metas

\* A lookup of the text of i hits.
LookupHits(i) ==
    IF kind = "rewrite"
    THEN get_from_cache(run.cache_enabled, run.book, text_of(i)).hit
    ELSE /\ is_in_global_cache(run.cache_enabled, text_of(i))
         /\ tts_global_meta[text_of(i)].state = "complete"

\* C29: when two tasks store the same key concurrently, under every
\* interleaving of their file writes both stores complete, and afterwards
\* both tiers hold a complete entry for the key whose payload is one of the
\* two payloads, so that a later lookup of the key hits.
C29_ConcurrentStoresBothSucceed ==
    \A i, j \in DOMAIN task :
        BothStored(i, j) => EntryOfEither(i, j) /\ LookupHits(i)

----------------------------------------------------------------------------
\* The worker limit of the fan-out stages.  Rewriting and speech synthesis
\* hand the chapter's segments to a ThreadPoolExecutor(max_workers=MAX_WORKERS);
\* frame capture starts one coroutine per segment and each enters an
\* asyncio.Semaphore(MAX_WORKERS) before it records.  What a task does while
\* it runs is in the fan-out model above; here a task only starts and ends.

MaxChapterSegs == 4     \* segments of the chapter

PoolStages == {"rewrite", "speech", "record"}

Executing == {i \in DOMAIN work : work[i] = "running"}

\* The executor hands out work items in the order they were submitted.
FirstQueued(i) ==
    /\ work[i] = "queued"
    /\ \A k \in 1..(i - 1) : work[k] # "queued"

\* Semaphore.acquire without the test of the counter (mutation of
\* sem_locked).
sem_locked_never == FALSE

\* Semaphore.locked(): the counter is used up, acquire has to wait.
sem_locked == sem_value = 0

\* executor.map / executor.submit: the next segment's call is queued, and a
\* worker thread is started when fewer than max_workers exist and none is
\* idle (a thread that is not running a call may or may not count as idle
\* yet).
pool_submit(i) ==
    /\ pool_stage \in {"rewrite", "speech"}
    /\ work[i] = "new"
    /\ \A k \in 1..(i - 1) : work[k] # "new"
    /\ work' = [work EXCEPT ![i] = "queued"]
    /\ threads' \in IF threads >= MAX_WORKERS THEN {threads}
                     ELSE IF Cardinality(Executing) = threads THEN {threads + 1}
                     ELSE {threads, threads + 1}
    /\ UNCHANGED <<pool_stage, sem_value>>
    /\ UNCHANGED orchVars
    /\ UNCHANGED fanVars
    /\ UNCHANGED splitVars
    /\ UNCHANGED tocVars
    /\ UNCHANGED bookVars

\* An idle worker thread takes the oldest queued call and runs
\* process_paragraph / generate_speech.
pool_take(i) ==
    /\ pool_stage \in {"rewrite", "speech"}
    /\ FirstQueued(i)
    /\ Cardinality(Executing) < threads
    /\ work' = [work EXCEPT ![i] = "running"]
    /\ UNCHANGED <<pool_stage, threads, sem_value>>
    /\ UNCHANGED orchVars
    /\ UNCHANGED fanVars
    /\ UNCHANGED splitVars
    /\ UNCHANGED tocVars
    /\ UNCHANGED bookVars

\* The call returns (or raises); its thread is idle again.
pool_return(i) ==
    /\ pool_stage \in {"rewrite", "speech"}
    /\ work[i] = "running"
    /\ work' = [work EXCEPT ![i] = "done"]
    /\ UNCHANGED <<pool_stage, threads, sem_value>>
    /\ UNCHANGED orchVars
    /\ UNCHANGED fanVars
    /\ UNCHANGED splitVars
    /\ UNCHANGED tocVars
    /\ UNCHANGED bookVars

\* record_with_semaphore, `async with semaphore`: the coroutine goes on when
\* the counter is positive and takes one from it.
sem_acquire(i) ==
    /\ pool_stage = "record"
    /\ work[i] = "queued"
    /\ ~ sem_locked
    /\ sem_value' = sem_value - 1
    /\ work' = [work EXCEPT ![i] = "running"]
    /\ UNCHANGED <<pool_stage, threads>>
    /\ UNCHANGED orchVars
    /\ UNCHANGED fanVars
    /\ UNCHANGED splitVars
    /\ UNCHANGED tocVars
    /\ UNCHANGED bookVars

\* record_paragraph is over; leaving the `async with` gives one back.
sem_release(i) ==
    /\ pool_stage = "record"
    /\ work[i] = "running"
    /\ sem_value' = sem_value + 1
    /\ work' = [work EXCEPT ![i] = "done"]
    /\ UNCHANGED <<pool_stage, threads>>
    /\ UNCHANGED orchVars
    /\ UNCHANGED fanVars
    /\ UNCHANGED splitVars
    /\ UNCHANGED tocVars
    /\ UNCHANGED bookVars

\* The stage starts: the executor is created without threads and nothing is
\* submitted yet; record_paragraphs creates the semaphore and gather
\* schedules every coroutine at once.
InitPool ==
    /\ OrchInit
    /\ FanInit
    /\ kind = "rewrite"
    /\ SplitIdle
    /\ TocIdle
    /\ pool_stage \in PoolStages
    /\ \E n \in 1..MaxChapterSegs :
          work = [i \in 1..n |-> IF pool_stage = "record" THEN "queued" ELSE "new"]
    /\ threads = 0
    /\ sem_value = IF pool_stage = "record" THEN MAX_WORKERS ELSE 0
    /\ BookIdle

NextPool ==
    \/ \E i \in DOMAIN work : pool_submit(i)
    \/ \E i \in DOMAIN work : pool_take(i)
    \/ \E i \in DOMAIN work : pool_return(i)
    \/ \E i \in DOMAIN work : sem_acquire(i)
    \/ \E i \in DOMAIN work : sem_release(i)

SpecPool == InitPool /\ [][NextPool]_vars

\* C30: at every moment of a fan-out stage (rewriting, speech synthesis,
\* frame capture) the number of per-segment tasks that are executing is at
\* most MAX_WORKERS, however many segments the chapter has.
C30_AtMostMaxWorkersExecuting == Cardinality(Executing) <= MAX_WORKERS

\* C30 witness: frame capture of a chapter with more segments than
\* MAX_WORKERS; MAX_WORKERS of them are recording and a further one waits
\* at the semaphore.
C30_Witness ==
    /\ pool_stage = "record"
    /\ Len(work) > MAX_WORKERS
    /\ Cardinality(Executing) = MAX_WORKERS
    /\ \E i \in DOMAIN work : work[i] = "queued"

\* The sentences of a text that hold at least one character.
Sentences(text) == SelectSeq(split_into_sentences(text), LAMBDA s : s # <<>>)

\* The least number of contiguous runs the sentences can be cut into, a run
\* being of length at most max or a single sentence.
RECURSIVE MinRuns(_, _)
MinRuns(sentences, max) ==
    IF sentences = <<>> THEN 0
    ELSE LET firsts == { k \in 1..Len(sentences) :
                            k = 1 \/ Len(Concat(SubSeq(sentences, 1, k))) <= max }
             counts == { 1 + MinRuns(SubSeq(sentences, k + 1, Len(sentences)), max) :
                            k \in firsts }
         IN CHOOSE n \in counts : \A m \in counts : n <= m

----------------------------------------------------------------------------
\* Extraction and segmentation of a whole book: EpubParser.parse_chapters
\* without a selection, then ContentSplitter.split_book_content, and the
\* segmentation applied once more to its own output (what generate() does
\* when it runs split_content on data that is already segmented).

MaxChapters == 2        \* content files of a book
ExampleBudget == 10     \* the budget of the worked example, 500 scaled by 1/50
ExampleLen == 24        \* the paragraph of the worked example, 1200 scaled by 1/50

NO_TITLE == "unnamed chapter"   \* the title _extract_title falls back to

\* An element soup.find_all(['p', 'div', 'img']) meets: a block with its
\* text and the src of the images inside it, or an image on its own.
Block(text, imgs) == [name |-> "p", text |-> text, imgs |-> imgs, src |-> ""]
Img(src) == [name |-> "img", text |-> <<>>, imgs |-> <<>>, src |-> src]

\* A content file: what its name is like, its first heading ("" when it has
\* none) and its elements.
Soup(name, heading, elements) == [name |-> name, heading |-> heading, elements |-> elements]

ChapterSoups ==
    { Soup("plain", "t1", << Block(<<"a", "!">>, <<>>) >>),
      Soup("plain", "t2", << Block(<<"a", "!", "a", "!">>, <<>>) >>),
      Soup("plain", "", << Block(<<" ", "a", "!", " ", "b", "!", " ">>, <<>>), Img("x.png") >>),
      Soup("plain", "t4", << Img("x.png") >>),
      Soup("plain", "t5", << Block(<<"a", "!">>, <<"x.png", "y.png">>) >>),
      Soup("plain", "t6", << Block(<<" ">>, <<"x.png">>), Img(""), Block(<<"a", "a", "a", "a">>, <<>>) >>),
      Soup("cover", "t7", << Img("x.png") >>),
      Soup("plain", "t8", << Block(<<" ">>, <<>>) >>) }

\* The texts of n characters made of sentences of two or three characters
\* that all end with the same mark.
RECURSIVE SentenceTexts(_, _)
SentenceTexts(n, mark) ==
    IF n = 0 THEN {<<>>}
    ELSE UNION { { piece \o rest : rest \in SentenceTexts(n - Len(piece), mark) } :
                    piece \in { q \in {<<"a", mark>>, <<"a", "a", mark>>} : Len(q) <= n } }

\* The book of the worked example: one paragraph of ExampleLen characters in
\* the first content file, one image in the second.  The paragraph is made
\* of short sentences ending in '!' or in '.', or is one run of letters.
ExampleTexts ==
    SentenceTexts(ExampleLen, "!") \cup SentenceTexts(ExampleLen, ".")
        \cup {[i \in 1..ExampleLen |-> "a"]}

ExampleBooks ==
    { << Soup("plain", "t1", << Block(text, <<>>) >>), Soup("plain", "t4", << Img("x.png") >>) >> :
        text \in ExampleTexts }

Books == UNION { [1..n -> ChapterSoups] : n \in 1..MaxChapters }

\* find_all(['p', 'div', 'img']) without the blocks whose text is blank: a
\* block that is kept, the images inside a block, an image on its own.
RECURSIVE content_elements(_)
content_elements(elements) ==
    IF elements = <<>> THEN <<>>
    ELSE LET e == Head(elements)
             inner == [k \in DOMAIN e.imgs |-> Img(e.imgs[k])]
         IN (IF e.name = "img" THEN <<e>>
             ELSE IF strip(e.text, {" "}) = <<>> THEN inner
             ELSE <<e>> \o inner)
            \o content_elements(Tail(elements))

BookPara(id, type, content, image_path) ==
    [id |-> id, type |-> type, content |-> content, image_path |-> image_path]

\* The paragraphs _extract_paragraphs appends for the element at idx: the id
\* is p_<idx>, and p_<idx>_img for every image inside a block.  The image
\* map is not modelled: image_path is the src.
ParagraphsOf(element, idx) ==
    IF element.name = "img"
    THEN IF element.src # ""
         THEN << BookPara(<<"p", idx>>, "image", <<>>, element.src) >>
         ELSE <<>>
    ELSE LET text == strip(element.text, {" "})
             srcs == SelectSeq(element.imgs, LAMBDA src : src # "")
         IN IF text = <<>> THEN <<>>
            ELSE [k \in DOMAIN srcs |->
                     BookPara(<<"p", idx, <<"img">>>>, "image", <<>>, srcs[k])]
                 \o << BookPara(<<"p", idx>>, "text", text, None) >>

\* EpubParser._extract_paragraphs.
extract_paragraphs(elements) ==
    LET found == content_elements(elements)
    IN Concat([k \in DOMAIN found |-> ParagraphsOf(found[k], k - 1)])

extract_title(soup) == IF soup.heading = "" THEN NO_TITLE ELSE soup.heading

Chapter(id, title, file_name, paragraphs) ==
    [id |-> id, title |-> title, file_name |-> file_name, paragraphs |-> paragraphs]

\* parse_chapters with no selection: one chapter per content file whose
\* name holds neither 'cover' nor 'toc'.
all_chapters(ss) ==
    LET kept == SelectSeq([i \in DOMAIN ss |-> [i |-> i, soup |-> ss[i]]],
                          LAMBDA x : x.soup.name = "plain")
    IN [k \in DOMAIN kept |->
           Chapter(<<"item", kept[k].i>>, extract_title(kept[k].soup),
                   <<"file", kept[k].i>>, extract_paragraphs(kept[k].soup.elements))]

\* split_book_content leaving out the chapters that come out without
\* paragraphs (mutation of split_book).
split_book_nonempty(chs, max) ==
    SelectSeq([c \in DOMAIN chs |->
                  [chs[c] EXCEPT !.paragraphs =
                      Concat([i \in DOMAIN chs[c].paragraphs |->
                                 split(chs[c].paragraphs[i], max)])]],
              LAMBDA ch : ch.paragraphs # <<>>)

\* ContentSplitter.split_book_content.
split_book(chs, max) ==
    [c \in DOMAIN chs |->
        [chs[c] EXCEPT !.paragraphs =
            Concat([i \in DOMAIN chs[c].paragraphs |-> split(chs[c].paragraphs[i], max)])]]

parse_chapters ==
    /\ soups # <<>>
    /\ chapters = NotParsedBook
    /\ chapters' = all_chapters(soups)
    /\ UNCHANGED <<soups, book_max, split_chapters, resplit>>
    /\ UNCHANGED <<html_files, rendered, video_files, recorded>>
    /\ UNCHANGED orchVars
    /\ UNCHANGED fanVars
    /\ UNCHANGED splitVars
    /\ UNCHANGED tocVars
    /\ UNCHANGED poolVars

split_book_first ==
    /\ chapters # NotParsedBook
    /\ split_chapters = NotParsedBook
    /\ split_chapters' = split_book(chapters, book_max)
    /\ UNCHANGED <<soups, book_max, chapters, resplit>>
    /\ UNCHANGED <<html_files, rendered, video_files, recorded>>
    /\ UNCHANGED orchVars
    /\ UNCHANGED fanVars
    /\ UNCHANGED splitVars
    /\ UNCHANGED tocVars
    /\ UNCHANGED poolVars

split_book_again ==
    /\ split_chapters # NotParsedBook
    /\ resplit = NotParsedBook
    /\ resplit' = split_book(split_chapters, book_max)
    /\ UNCHANGED <<soups, book_max, chapters, split_chapters>>
    /\ UNCHANGED <<html_files, rendered, video_files, recorded>>
    /\ UNCHANGED orchVars
    /\ UNCHANGED fanVars
    /\ UNCHANGED splitVars
    /\ UNCHANGED tocVars
    /\ UNCHANGED poolVars

\* HtmlRenderer._get_html_path and PlaywrightRecorder._get_video_path: the
\* directory is the scope's, the file name is the paragraph id.
get_html_path(paragraph_id) == <<"html", paragraph_id>>
get_video_path(paragraph_id) == <<"video", paragraph_id>>

\* The page render_paragraph writes for a paragraph: its text or image, and
\* the chapter title on the first paragraph of a chapter.
Page(p, chapter_title, show_chapter_title) ==
    [type |-> p.type, content |-> p.content, image_path |-> p.image_path,
     chapter_title |-> IF show_chapter_title THEN chapter_title ELSE ""]

PageAt(chs, c, i) == Page(chs[c].paragraphs[i], chs[c].title, i = 1)

\* The paragraphs of a book in the order render_book and record_book visit
\* them.
Visits(chs) ==
    Concat([c \in DOMAIN chs |-> [i \in DOMAIN chs[c].paragraphs |-> <<c, i>>]])

\* The files render_book leaves: open(html_path, 'w') replaces what an
\* earlier paragraph wrote to the same path.
RECURSIVE written_pages(_, _, _)
written_pages(chs, visits, files) ==
    IF visits = <<>> THEN files
    ELSE LET c == Head(visits)[1]
             i == Head(visits)[2]
             path == get_html_path(chs[c].paragraphs[i].id)
             page == PageAt(chs, c, i)
         IN written_pages(chs, Tail(visits),
                [q \in DOMAIN files \cup {path} |->
                    IF q = path THEN page ELSE files[q]])

\* The files record_book leaves: a video is captured from the page at the
\* paragraph's html_path unless the video path exists already.
RECURSIVE captured_videos(_, _, _, _)
captured_videos(chs, visits, pages, files) ==
    IF visits = <<>> THEN files
    ELSE LET c == Head(visits)[1]
             i == Head(visits)[2]
             p == chs[c].paragraphs[i]
             path == get_video_path(p.id)
         IN captured_videos(chs, Tail(visits), pages,
                IF path \in DOMAIN files THEN files
                ELSE [q \in DOMAIN files \cup {path} |->
                         IF q = path THEN pages[p.html_path] ELSE files[q]])

WithPath(p, html_path, video_path) ==
    [id |-> p.id, type |-> p.type, content |-> p.content, image_path |-> p.image_path,
     html_path |-> html_path, video_path |-> video_path]

\* HtmlRenderer.render_book, for the scope of the run.
render_book ==
    /\ split_chapters # NotParsedBook
    /\ rendered = NotParsedBook
    /\ html_files' = written_pages(split_chapters, Visits(split_chapters), html_files)
    /\ rendered' = [c \in DOMAIN split_chapters |->
                      [split_chapters[c] EXCEPT !.paragraphs =
                          [i \in DOMAIN split_chapters[c].paragraphs |->
                              WithPath(split_chapters[c].paragraphs[i],
                                       get_html_path(split_chapters[c].paragraphs[i].id),
                                       <<>>)]]]
    /\ UNCHANGED <<soups, book_max, chapters, split_chapters, resplit, video_files, recorded>>
    /\ UNCHANGED orchVars
    /\ UNCHANGED fanVars
    /\ UNCHANGED splitVars
    /\ UNCHANGED tocVars
    /\ UNCHANGED poolVars

\* PlaywrightRecorder.record_book.
record_book ==
    /\ rendered # NotParsedBook
    /\ recorded = NotParsedBook
    /\ video_files' = captured_videos(rendered, Visits(rendered), html_files, video_files)
    /\ recorded' = [c \in DOMAIN rendered |->
                      [rendered[c] EXCEPT !.paragraphs =
                          [i \in DOMAIN rendered[c].paragraphs |->
                              [rendered[c].paragraphs[i] EXCEPT !.video_path =
                                  get_video_path(rendered[c].paragraphs[i].id)]]]]
    /\ UNCHANGED <<soups, book_max, chapters, split_chapters, resplit, html_files, rendered>>
    /\ UNCHANGED orchVars
    /\ UNCHANGED fanVars
    /\ UNCHANGED splitVars
    /\ UNCHANGED tocVars
    /\ UNCHANGED poolVars

InitBook ==
    /\ OrchInit
    /\ FanInit
    /\ kind = "rewrite"
    /\ SplitIdle
    /\ TocIdle
    /\ PoolIdle
    /\ \/ soups \in Books /\ book_max \in 1..MaxBudget
       \/ soups \in ExampleBooks /\ book_max = ExampleBudget
    /\ chapters = NotParsedBook
    /\ split_chapters = NotParsedBook
    /\ resplit = NotParsedBook
    /\ html_files = <<>> /\ rendered = NotParsedBook
    /\ video_files = <<>> /\ recorded = NotParsedBook

NextBook ==
    \/ parse_chapters
    \/ split_book_first
    \/ split_book_again
    \/ render_book
    \/ record_book

SpecBook == InitBook /\ [][NextBook]_vars

\* The text of the one paragraph of the first content file.
ExampleText == soups[1].elements[1].text

\* The sentences of the example are short enough for three runs: with every
\* sentence at most this long, two full runs leave a rest that fits a third.
ShortSentence == (3 * ExampleBudget - ExampleLen) \div 2

\* The worked example has been segmented.
ExampleSegmented ==
    /\ soups \in ExampleBooks
    /\ book_max = ExampleBudget
    /\ split_chapters # NotParsedBook
    /\ \A j \in DOMAIN ClaimSentences(ExampleText) :
          Len(ClaimSentences(ExampleText)[j]) <= ShortSentence

\* C32: for a two-chapter input in which chapter 1 has one text paragraph of
\* 1200 characters and chapter 2 has one image, with budget 500,
\* split_book_content yields exactly 3 segments for chapter 1 and exactly 1
\* image segment for chapter 2, 4 in total (lengths scaled by 1/50; the
\* paragraph made of sentences short enough for three runs to exist).
C32_ExampleYieldsThreeAndOne ==
    ExampleSegmented
    => /\ Len(split_chapters) = 2
       /\ Len(split_chapters[1].paragraphs) = 3
       /\ Len(split_chapters[2].paragraphs) = 1
       /\ split_chapters[2].paragraphs[1].type = "image"

\* The segments of the units of a chapter, unit after unit.
RECURSIVE SegmentsInOrder(_, _)
SegmentsInOrder(units, max) ==
    IF units = <<>> THEN <<>>
    ELSE split(Head(units), max) \o SegmentsInOrder(Tail(units), max)

\* C33: split_book_content returns one chapter per input chapter in the same
\* order, each with every field other than paragraphs unchanged and with
\* paragraphs equal to the in-order concatenation of split_paragraph over
\* its units; the input chapters and their paragraph lists are not modified.
C33_SameChaptersSegmentsInOrder ==
    /\ [](split_chapters # NotParsedBook
            => /\ Len(split_chapters) = Len(chapters)
               /\ \A c \in DOMAIN chapters :
                     /\ split_chapters[c].id = chapters[c].id
                     /\ split_chapters[c].title = chapters[c].title
                     /\ split_chapters[c].file_name = chapters[c].file_name
                     /\ split_chapters[c].paragraphs
                            = SegmentsInOrder(chapters[c].paragraphs, book_max))
    /\ [][split_book_first => chapters' = chapters]_vars

\* C33 witness: a book of two chapters has been segmented, the first one
\* without paragraphs and the second one with a text that was cut.
C33_Witness ==
    /\ split_chapters # NotParsedBook
    /\ Len(chapters) = 2
    /\ chapters[1].paragraphs = <<>>
    /\ Len(split_chapters[2].paragraphs) > Len(chapters[2].paragraphs)

\* The positions (0-based) of the itemrefs of the spine that name a content
\* file of the container, in reading order.
ContentFiles(spine) ==
    SelectSeq([k \in DOMAIN spine |-> k - 1], LAMBDA i : spine[i + 1] = "item")

DistinctIds(ch) ==
    \A i, j \in DOMAIN ch.paragraphs :
        i # j => ch.paragraphs[i].id # ch.paragraphs[j].id

\* C35: after extraction and segmentation all segments of one chapter have
\* pairwise distinct ids: two sub-segments derived from the same parent, and
\* several images embedded in one markup element, never share an id.
C35_SegmentIdsDistinctInChapter ==
    split_chapters # NotParsedBook
    => \A c \in DOMAIN split_chapters : DistinctIds(split_chapters[c])

\* C37: applying split_book_content with the same budget to its own output
\* returns that output unchanged (same segments, same ids, same order), so
\* that running the segmentation stage again on segmented data has no
\* effect.
C37_SegmentationIdempotent ==
    resplit # NotParsedBook => resplit = split_chapters

\* The page made from the segment at (c, i) of the recorded book.
OwnPage(c, i) ==
    Page(recorded[c].paragraphs[i], recorded[c].title, i = 1)

\* C36: within one scope two different segments never share a rendered-page
\* file or a video file: after the rendering and capture stages each
\* segment's html_path and video_path refer to an artifact produced from
\* that segment's own content, also when the two segments belong to
\* different chapters.
C36_ArtifactsAreTheSegmentsOwn ==
    recorded # NotParsedBook
    => /\ \A x, y \in {Visits(recorded)[k] : k \in DOMAIN Visits(recorded)} :
             x # y =>
                /\ recorded[x[1]].paragraphs[x[2]].html_path
                       # recorded[y[1]].paragraphs[y[2]].html_path
                /\ recorded[x[1]].paragraphs[x[2]].video_path
                       # recorded[y[1]].paragraphs[y[2]].video_path
       /\ \A k \in DOMAIN Visits(recorded) :
             LET c == Visits(recorded)[k][1]
                 i == Visits(recorded)[k][2]
             IN /\ html_files[recorded[c].paragraphs[i].html_path] = OwnPage(c, i)
                /\ video_files[recorded[c].paragraphs[i].video_path] = OwnPage(c, i)

\* C38: for every entry e of the flattened table of contents, selecting e
\* (by the id shown for it) makes parse_chapters produce a chapter built
\* from e's own title, source file and fragment, never from another
\* entry's.
C38_SelectionGivesOwnChapter ==
    choice # 0
    => /\ Len(picked) = 1
       /\ picked[1].title = flat_toc[choice].title
       /\ picked[1].file_name = flat_toc[choice].file_name

----------------------------------------------------------------------------
\* The orchestrator started on a working directory in which the cache index
\* has an entry: book_cache_index.json names scope 1 for the document
\* in1/a.epub, and scope 1 holds the checkpoint of an earlier run that
\* completed parse_book.

IndexedDoc == <<"in1", "a.epub">>
IndexedScope == 1

InitIndex ==
    /\ cacheIndex = [p \in Paths |-> IF p = IndexedDoc THEN IndexedScope ELSE NoBook]
    /\ progressFile = [b \in BookIds |->
                          IF b = IndexedScope THEN File("parse_book") ELSE NoProgress]
    /\ dataFile = [b \in BookIds |-> [s \in SavedStages |->
                      IF b = IndexedScope /\ s = "parse_book"
                      THEN File(<<"parse_book">>) ELSE Absent]]
    /\ nextId = IndexedScope + 1
    /\ pc = PcNone
    /\ gen = NoGen
    /\ executed = <<>>
    /\ result = "none"
    /\ ngen = 0
    /\ completed = [b \in BookIds |-> IF b = IndexedScope THEN "parse_book" ELSE None]
    /\ docCompleted = [p \in Paths |-> IF p = IndexedDoc THEN "parse_book" ELSE None]
    /\ FanInit
    /\ SplitIdle
    /\ TocIdle
    /\ PoolIdle
    /\ BookIdle
    /\ kind = "rewrite"

SpecIndex == InitIndex /\ [][Next]_vars

CopyingDown(i) == task[i].pc \in {"copy_audio", "copy_read_meta"}

\* C40: in every reachable state of the speech cache, including while stores
\* run concurrently, a hit of the global tier implies that the audio file
\* and its metadata are both present and complete, so the copy-down that
\* follows a hit never meets a missing or partial file.
C40_GlobalHitImpliesCompleteEntry ==
    kind = "speech" /\ phase = "running"
    => /\ \A t \in Texts :
             is_in_global_cache(run.cache_enabled, t)
             => /\ tts_global_audio[t].state = "complete"
                /\ tts_global_meta[t].state = "complete"
       /\ \A i \in DOMAIN task :
             CopyingDown(i)
             => /\ tts_global_audio[text_of(i)].state = "complete"
                /\ tts_global_meta[text_of(i)].state = "complete"

====
